---- MODULE Spec2Model ----
(***************************************************************************)
(* A model of pg_wire (server side of the PostgreSQL v3 wire protocol):    *)
(* the byte cursor, the handshake state machine, the frontend message      *)
(* decoder, the connection supervisor and the listener's accept loop.      *)
(* Bytes are integers 0..255, byte strings are sequences of bytes, and     *)
(* Rust Strings are modelled by the byte sequence of their UTF-8 form.     *)
(***************************************************************************)
EXTENDS Integers, Sequences, FiniteSets, TLC

VARIABLES
    hsState,    \* hand_shake::Process.state : "None" | "MessageLen" | "ParseSetup"
    hsPrev,     \* Process.state as it was when the last next_stage call began
    hsIn,       \* the payload of the last next_stage call
    hsRes,      \* what the last next_stage call returned
    hsCalls,    \* number of next_stage calls made on this Process
    hsSsl,      \* number of SSL upgrade statuses this Process has returned
    hsEnded,    \* history: a call before the last one returned Done, Cancel or an error
    decState,   \* MessageDecoder.state
    decTag,     \* MessageDecoder.tag
    decPrev,    \* MessageDecoder.state as it was when the last next_stage call began
    decIn,      \* the payload of the last next_stage call
    decRes,     \* what the last next_stage call returned
    decMsgs,    \* number of messages this decoder has returned in a Done
    decFed,     \* the bytes fed to the decoder since its cycle began, concatenated
    decExact,   \* every chunk fed in this cycle had exactly the requested length
    min_id,     \* the min_id the ConnSupervisor was created with
    next_id,    \* ConnSupervisorInner.next_id
    max_id,     \* ConnSupervisorInner.max_id
    free_ids,   \* ConnSupervisorInner.free_ids, front first
    current_mapping,    \* ConnSupervisorInner.current_mapping : live id -> secret key
    poisoned,   \* a call panicked while it held the supervisor's mutex
    supLast,    \* the last supervisor call: its arguments, the fields before it, its result
    supOps,     \* number of calls the supervisor's driver has made
    supIssued,  \* history: id -> key of the ids alloc returned and free was not called on since
    supFreed,   \* history: the ids free returned for and alloc did not return since
    mutex,      \* the thread that holds the supervisor's Mutex, 0 when it is unlocked
    thPc,       \* per thread: where its call on a ConnSupervisor clone stands
    thCall,     \* per thread: the call it is making
    thLocal,    \* per thread: the locals of the call (fields at lock time, the id)
    accProc,    \* accept: `process`, the state of its handshake Process
    accCur,     \* accept: `current`, the bytes read last
    accChan,    \* accept: `channel`, "Plain" | "Secure", or "Closed" before a client connects
    accStatus,  \* accept: what process.next_stage returned in the last pass of the loop
    accSsl,     \* accept: upgrade statuses handled in this run, counted up to MaxSsl
    accSent,    \* accept: what the last pass of the loop wrote to the channel
    accOut,     \* accept: what the call returned, or that it is still running
    accConns,   \* number of clients this listener has accepted
    ssl_conf,   \* ProtocolConfiguration.ssl_conf is Some
    accPwd,     \* this run of accept has read the client's password message
    accSessions, \* ids of the Connection values accept returned and nobody dropped yet
    accMet,     \* accept: what the last pass of the loop met (a failed I/O operation, a
                \* protocol failure) and what the client answered the password request with
    accHist,    \* history: what the accept calls that returned before this one returned
    accTls,     \* history of this run of accept: tls_accept calls, 'S' bytes written, the
                \* channel as the last pass found it and the channels its I/O went through
    conStream,  \* a Connection's channel: the bytes the client sent and nobody read yet
    conErr,     \* the error a read past those bytes ends with
    conNet,     \* the channel is the tests' TestCase ("mock") or a socket
    conLast,    \* what the last receive() returned and what it met
    conCalls,   \* number of receive() calls made on the Connection
    conEofs,    \* number of those calls that met UnexpectedEof in the middle of a frame
    fnCall,     \* the last call of a pure function of the crate: its name and arguments
    fnRes,      \* what that call returned
    sndChannel, \* ResponseSender.channel: the bytes the client has been sent, in order
    sndLock,    \* the thread that holds the channel's AsyncMutex, 0 when it is unlocked
    sndPc,      \* per thread: where its send() or flush() on the ResponseSender stands
    sndArg,     \* per thread: the query_result it is sending
    sndPos,     \* per thread: how many bytes of its message write_all has written
    sndOrder,   \* history: the query_results in the order their sends took the lock
    sndBroken,  \* the channel has failed a write
    sndCalls,   \* number of send() and flush() calls started on the ResponseSender
    rcv,        \* the session's receive(): where it stands, the read it is in, and the
                \* bytes the client has sent that it has not read
    rb          \* a ringbuf::RingBuffer (data, head, tail), the elements pushed and
                \* popped so far, and the last push or pop with what it returned

fnVars == <<fnCall, fnRes, rb>>
sndVars == <<sndChannel, sndLock, sndPc, sndArg, sndPos, sndOrder, sndBroken, sndCalls, rcv>>
hsVars == <<hsState, hsPrev, hsIn, hsRes, hsCalls, hsSsl, hsEnded, fnVars, sndVars>>
decVars == <<decState, decTag, decPrev, decIn, decRes, decMsgs, decFed, decExact>>
supVars ==
    <<min_id, next_id, max_id, free_ids, current_mapping, poisoned, supLast, supOps,
      supIssued, supFreed, mutex, thPc, thCall, thLocal>>
thVars == <<mutex, thPc, thCall, thLocal>>
accVars ==
    <<accProc, accCur, accChan, accStatus, accSsl, accSent, accOut, accConns, ssl_conf,
      accPwd, accSessions, accMet, accHist, accTls, conStream, conErr, conNet, conLast, conCalls,
      conEofs>>
conVars == <<conStream, conErr, conNet, conLast, conCalls, conEofs>>

vars == <<hsVars, decVars, supVars, accVars>>

----------------------------------------------------------------------------
(* Bounds of the exploration                                               *)

MaxCalls == 5       \* next_stage calls made on one handshake Process
MaxProps == 2       \* name/value pairs in a generated startup message
MaxJunk == 2        \* length of the exhaustively enumerated byte tails
MaxMsgs == 2        \* messages decoded in a row by one MessageDecoder
MaxFed == 7         \* bytes fed to a decoder in one cycle of the splitting runs
MaxOps == 5         \* calls made on one ConnSupervisor
MaxSsl == 2         \* upgrade statuses of one accept call that are told apart
MaxConns == 2       \* clients accepted by one listener

----------------------------------------------------------------------------
(* Integers of fixed width                                                 *)

I32_MAX == 2147483647
I32_MIN == -I32_MAX - 1

Byte == 0..255

\* i32::from_be_bytes, computed without leaving the 32-bit range
I32FromBe(b1, b2, b3, b4) ==
    (IF b1 >= 128 THEN b1 - 256 ELSE b1) * 16777216 + b2 * 65536 + b3 * 256 + b4

\* i32::to_be_bytes
I32ToBe(x) ==
    LET hi == IF x < 0 THEN (x - I32_MIN) \div 16777216 + 128 ELSE x \div 16777216
        lo == IF x < 0 THEN (x - I32_MIN) % 16777216 ELSE x % 16777216
    IN  <<hi, lo \div 65536, (lo \div 256) % 256, lo % 256>>

\* i16::from_be_bytes
I16FromBe(b1, b2) == (IF b1 >= 128 THEN b1 - 256 ELSE b1) * 256 + b2

----------------------------------------------------------------------------
(* Request codes                                                           *)

VERSION_1_CODE == 65536
VERSION_2_CODE == 131072
VERSION_3_CODE == 196608
CANCEL_REQUEST_CODE == 80877102
SSL_REQUEST_CODE == 80877103
GSSENC_REQUEST_CODE == 80877104

----------------------------------------------------------------------------
(* Byte cursor                                                             *)

\* Cursor::advance: the slice from position n on
advance(s, n) == SubSeq(s, n + 1, Len(s))

\* std::str::from_utf8 on the byte shapes of 1- to 4-byte sequences
RECURSIVE IsUtf8(_)
IsUtf8(s) ==
    IF s = <<>> THEN TRUE
    ELSE LET b == s[1]
             Cont(i) == i <= Len(s) /\ s[i] >= 128 /\ s[i] <= 191
         IN  IF b < 128 THEN IsUtf8(advance(s, 1))
             ELSE IF b >= 194 /\ b <= 223 THEN Cont(2) /\ IsUtf8(advance(s, 2))
             ELSE IF b >= 224 /\ b <= 239 THEN Cont(2) /\ Cont(3) /\ IsUtf8(advance(s, 3))
             ELSE IF b >= 240 /\ b <= 244
                  THEN Cont(2) /\ Cont(3) /\ Cont(4) /\ IsUtf8(advance(s, 4))
             ELSE FALSE

CurOk(v, rest) == [ok |-> TRUE, val |-> v, rest |-> rest]
CurErr(e) == [ok |-> FALSE, err |-> e]

read_byte(buf) ==
    IF buf = <<>> THEN CurErr("InvalidInput") ELSE CurOk(buf[1], advance(buf, 1))

read_i16(buf) ==
    IF Len(buf) < 2 THEN CurErr("InvalidInput")
    ELSE CurOk(I16FromBe(buf[1], buf[2]), advance(buf, 2))

read_i32(buf) ==
    IF Len(buf) < 4 THEN CurErr("InvalidInput")
    ELSE CurOk(I32FromBe(buf[1], buf[2], buf[3], buf[4]), advance(buf, 4))

read_cstr(buf) ==
    IF \E i \in 1..Len(buf) : buf[i] = 0
    THEN LET pos == CHOOSE i \in 1..Len(buf) :
                        buf[i] = 0 /\ \A j \in 1..(i - 1) : buf[j] # 0
             val == SubSeq(buf, 1, pos - 1)
         IN  IF IsUtf8(val) THEN CurOk(val, advance(buf, pos)) ELSE CurErr("InvalidUtfString")
    ELSE CurErr("ZeroByteNotFound")

----------------------------------------------------------------------------
(* Handshake state machine: hand_shake::Process                            *)

NoPayload == [some |-> FALSE, bytes |-> <<>>]
SomePayload(b) == [some |-> TRUE, bytes |-> b]

\* `x as usize` of an i32: a negative x is the 64-bit value 2^64 + x
AsUsize(x) == [n |-> x, huge |-> x < 0]

RequestingBytes(u) == [kind |-> "RequestingBytes", n |-> u.n, huge |-> u.huge]
UpdatingToSecureWithReadingBytes(n) ==
    [kind |-> "UpdatingToSecureWithReadingBytes", n |-> n, huge |-> FALSE]
HsDone(props) == [kind |-> "Done", props |-> props]
HsCancel(id, key) == [kind |-> "Cancel", conn_id |-> id, secret_key |-> key]
HsErr(e, code) == [kind |-> "Err", err |-> e, code |-> code]
HsPanic == [kind |-> "Panic"]

\* the loop of the VERSION_3 branch: cstr pairs up to the first empty key
RECURSIVE ReadProps(_, _)
ReadProps(buf, props) ==
    LET key == read_cstr(buf)
    IN  IF ~key.ok THEN CurErr(key.err)
        ELSE IF key.val = <<>> THEN CurOk(props, key.rest)
        ELSE LET value == read_cstr(key.rest)
             IN  IF ~value.ok THEN CurErr(value.err)
                 ELSE ReadProps(value.rest, Append(props, <<key.val, value.val>>))

\* mutant: the length prefix is taken as the body length
HsMessageLen_NoPrefix(bytes, ovf) ==
    LET len == read_i32(bytes)
    IN  IF ~len.ok THEN [state |-> "None", res |-> [kind |-> "Err", err |-> "Payload", code |-> 0]]
        ELSE [state |-> "ParseSetup", res |-> RequestingBytes(AsUsize(len.val))]

\* State::MessageLen: `len - 4` is an i32 subtraction, overflow panics in a
\* debug build and wraps in a release build (ovf names the build's outcome)
HsMessageLen(bytes, ovf) ==
    LET len == read_i32(bytes)
    IN  IF ~len.ok THEN [state |-> "None", res |-> HsErr("Payload", 0)]
        ELSE IF len.val < I32_MIN + 4
             THEN IF ovf = "panic"
                  THEN [state |-> "None", res |-> HsPanic]
                  ELSE [state |-> "ParseSetup",
                        res |-> RequestingBytes(AsUsize((len.val + I32_MAX) + (I32_MAX - 2)))]
        ELSE [state |-> "ParseSetup", res |-> RequestingBytes(AsUsize(len.val - 4))]

\* mutant: the SSL arm forgets to put the state back
HsSslRequest_Forgets == [state |-> "None", res |-> UpdatingToSecureWithReadingBytes(4)]

\* the SSL_REQUEST_CODE arm of State::ParseSetup
HsSslRequest == [state |-> "MessageLen", res |-> UpdatingToSecureWithReadingBytes(4)]

\* mutant: only VERSION_1 is reported as a protocol version
HsRejectCode_V1Only(code) ==
    IF code = VERSION_1_CODE
    THEN [state |-> "None", res |-> HsErr("UnsupportedProtocolVersion", code)]
    ELSE [state |-> "None", res |-> HsErr("UnsupportedClientRequest", code)]

\* the VERSION_1_CODE | VERSION_2_CODE arm and the `otherwise` arm
HsRejectCode(code) ==
    IF code \in {VERSION_1_CODE, VERSION_2_CODE}
    THEN [state |-> "None", res |-> HsErr("UnsupportedProtocolVersion", code)]
    ELSE [state |-> "None", res |-> HsErr("UnsupportedClientRequest", code)]

\* mutant: pairs are pushed at the front
RECURSIVE ReadPropsFront(_, _)
ReadPropsFront(buf, props) ==
    LET key == read_cstr(buf)
    IN  IF ~key.ok THEN CurErr(key.err)
        ELSE IF key.val = <<>> THEN CurOk(props, key.rest)
        ELSE LET value == read_cstr(key.rest)
             IN  IF ~value.ok THEN CurErr(value.err)
                 ELSE ReadPropsFront(value.rest, <<(<<key.val, value.val>>)>> \o props)

HsStartup_Reversed(buf) ==
    LET props == ReadPropsFront(buf, <<>>)
    IN  IF ~props.ok THEN [state |-> "None", res |-> HsErr("Payload", 0)]
        ELSE [state |-> "None", res |-> HsDone(props.val)]

\* the VERSION_3_CODE arm
HsStartup(buf) ==
    LET props == ReadProps(buf, <<>>)
    IN  IF ~props.ok THEN [state |-> "None", res |-> HsErr("Payload", 0)]
        ELSE [state |-> "None", res |-> HsDone(props.val)]

\* the CANCEL_REQUEST_CODE arm
HsCancelRequest(buf) ==
    LET conn_id == read_i32(buf)
    IN  IF ~conn_id.ok THEN [state |-> "None", res |-> HsErr("Payload", 0)]
        ELSE LET secret_key == read_i32(conn_id.rest)
             IN  IF ~secret_key.ok THEN [state |-> "None", res |-> HsErr("Payload", 0)]
                 ELSE [state |-> "None", res |-> HsCancel(conn_id.val, secret_key.val)]

\* State::ParseSetup
HsParseSetup(bytes) ==
    LET code == read_i32(bytes)
    IN  IF ~code.ok THEN [state |-> "None", res |-> HsErr("Payload", 0)]
        ELSE IF code.val = VERSION_3_CODE THEN HsStartup(code.rest)
        ELSE IF code.val = CANCEL_REQUEST_CODE THEN HsCancelRequest(code.rest)
        ELSE IF code.val = SSL_REQUEST_CODE THEN HsSslRequest
        ELSE HsRejectCode(code.val)

\* Process::next_stage: self.state.take() leaves None behind, so every path
\* that does not assign self.state ends with state None
HsNextStage(state, payload, ovf) ==
    IF state = "None" \/ ~payload.some
    THEN [state |-> "MessageLen", res |-> RequestingBytes(AsUsize(4))]
    ELSE IF state = "MessageLen" THEN HsMessageLen(payload.bytes, ovf)
    ELSE HsParseSetup(payload.bytes)

----------------------------------------------------------------------------
(* Frontend message decoder: message_decoder::MessageDecoder               *)

QUERY == 81
BIND == 66
CLOSE == 67
DESCRIBE == 68
EXECUTE == 69
FLUSH == 72
PARSE == 80
SYNC == 83
TERMINATE == 88

\* `val as u32`: the same 32 bits, kept as two 16-bit halves
U32(x) == IF x < 0 THEN [hi |-> (x - I32_MIN) \div 65536 + 32768, lo |-> (x - I32_MIN) % 65536]
          ELSE [hi |-> x \div 65536, lo |-> x % 65536]

read_u32(buf) ==
    LET r == read_i32(buf)
    IN  IF r.ok THEN CurOk(U32(r.val), r.rest) ELSE r

\* from_oid matching on the low 16 bits of the OID only
from_oid_IgnoresHigh(oid) ==
    IF oid.lo = 0 THEN [ok |-> TRUE, val |-> "None"]
    ELSE IF oid.lo = 16 THEN [ok |-> TRUE, val |-> "Bool"]
    ELSE IF oid.lo = 18 THEN [ok |-> TRUE, val |-> "Char"]
    ELSE IF oid.lo = 20 THEN [ok |-> TRUE, val |-> "BigInt"]
    ELSE IF oid.lo = 21 THEN [ok |-> TRUE, val |-> "SmallInt"]
    ELSE IF oid.lo = 23 THEN [ok |-> TRUE, val |-> "Integer"]
    ELSE IF oid.lo = 1043 THEN [ok |-> TRUE, val |-> "VarChar"]
    ELSE [ok |-> FALSE, err |-> "NotSupportedOid", oid |-> oid]

\* PgType::from_oid
from_oid(oid) ==
    IF oid.hi # 0 THEN [ok |-> FALSE, err |-> "NotSupportedOid", oid |-> oid]
    ELSE IF oid.lo = 0 THEN [ok |-> TRUE, val |-> "None"]
    ELSE IF oid.lo = 16 THEN [ok |-> TRUE, val |-> "Bool"]
    ELSE IF oid.lo = 18 THEN [ok |-> TRUE, val |-> "Char"]
    ELSE IF oid.lo = 20 THEN [ok |-> TRUE, val |-> "BigInt"]
    ELSE IF oid.lo = 21 THEN [ok |-> TRUE, val |-> "SmallInt"]
    ELSE IF oid.lo = 23 THEN [ok |-> TRUE, val |-> "Integer"]
    ELSE IF oid.lo = 1043 THEN [ok |-> TRUE, val |-> "VarChar"]
    ELSE [ok |-> FALSE, err |-> "NotSupportedOid", oid |-> oid]

\* PgFormat::try_from(i16)
PgFormatTryFrom(value) ==
    IF value = 0 THEN [ok |-> TRUE, val |-> "Text"]
    ELSE IF value = 1 THEN [ok |-> TRUE, val |-> "Binary"]
    ELSE [ok |-> FALSE, err |-> "UnrecognizedFormat"]

\* `for _ in 0..n { push(PgFormat::try_from(cursor.read_i16()?)?) }`
RECURSIVE ReadFormats(_, _, _)
ReadFormats(buf, n, acc) ==
    IF n <= 0 THEN CurOk(acc, buf)
    ELSE LET code == read_i16(buf)
         IN  IF ~code.ok THEN CurErr("Payload")
             ELSE LET format == PgFormatTryFrom(code.val)
                  IN  IF ~format.ok THEN CurErr(format.err)
                      ELSE ReadFormats(code.rest, n - 1, Append(acc, format.val))

\* `for _ in 0..len { value.push(cursor.read_byte()?) }`
RECURSIVE ReadBytes(_, _, _)
ReadBytes(buf, len, acc) ==
    IF len <= 0 THEN CurOk(acc, buf)
    ELSE LET byte == read_byte(buf)
         IN  IF ~byte.ok THEN CurErr("Payload")
             ELSE ReadBytes(byte.rest, len - 1, Append(acc, byte.val))

\* the raw_params loop of BIND: a length of -1 is a NULL parameter
RECURSIVE ReadParams(_, _, _)
ReadParams(buf, n, acc) ==
    IF n <= 0 THEN CurOk(acc, buf)
    ELSE LET len == read_i32(buf)
         IN  IF ~len.ok THEN CurErr("Payload")
             ELSE IF len.val = -1
                  THEN ReadParams(len.rest, n - 1, Append(acc, [some |-> FALSE, bytes |-> <<>>]))
             ELSE LET value == ReadBytes(len.rest, len.val, <<>>)
                  IN  IF ~value.ok THEN CurErr("Payload")
                      ELSE ReadParams(value.rest, n - 1,
                                      Append(acc, [some |-> TRUE, bytes |-> value.val]))

\* the param_types loop of PARSE
RECURSIVE ReadOids(_, _, _)
ReadOids(buf, n, acc) ==
    IF n <= 0 THEN CurOk(acc, buf)
    ELSE LET oid == read_u32(buf)
         IN  IF ~oid.ok THEN CurErr("Payload")
             ELSE LET pg_type == from_oid(oid.val)
                  IN  IF ~pg_type.ok THEN CurErr(pg_type.err)
                      ELSE ReadOids(oid.rest, n - 1, Append(acc, pg_type.val))

DecodeOk(m) == [ok |-> TRUE, val |-> m]
DecodeErr(e) == [ok |-> FALSE, err |-> e]

DecodeQuery(buffer) ==
    LET sql == read_cstr(buffer)
    IN  IF ~sql.ok THEN DecodeErr("Payload")
        ELSE DecodeOk([msg |-> "Query", sql |-> sql.val])

DecodeBind(buffer) ==
    LET portal_name == read_cstr(buffer)
    IN  IF ~portal_name.ok THEN DecodeErr("Payload") ELSE
    LET statement_name == read_cstr(portal_name.rest)
    IN  IF ~statement_name.ok THEN DecodeErr("Payload") ELSE
    LET n_pf == read_i16(statement_name.rest)
    IN  IF ~n_pf.ok THEN DecodeErr("Payload") ELSE
    LET param_formats == ReadFormats(n_pf.rest, n_pf.val, <<>>)
    IN  IF ~param_formats.ok THEN DecodeErr(param_formats.err) ELSE
    LET n_pv == read_i16(param_formats.rest)
    IN  IF ~n_pv.ok THEN DecodeErr("Payload") ELSE
    LET raw_params == ReadParams(n_pv.rest, n_pv.val, <<>>)
    IN  IF ~raw_params.ok THEN DecodeErr(raw_params.err) ELSE
    LET n_rf == read_i16(raw_params.rest)
    IN  IF ~n_rf.ok THEN DecodeErr("Payload") ELSE
    LET result_formats == ReadFormats(n_rf.rest, n_rf.val, <<>>)
    IN  IF ~result_formats.ok THEN DecodeErr(result_formats.err)
        ELSE DecodeOk([msg |-> "Bind", portal_name |-> portal_name.val,
                       statement_name |-> statement_name.val,
                       param_formats |-> param_formats.val,
                       raw_params |-> raw_params.val,
                       result_formats |-> result_formats.val])

\* CLOSE and DESCRIBE: a kind byte, then a name; the name is read first
DecodeNamed(buffer, portal, statement) ==
    LET first_char == read_byte(buffer)
    IN  IF ~first_char.ok THEN DecodeErr("Payload") ELSE
    LET name == read_cstr(first_char.rest)
    IN  IF ~name.ok THEN DecodeErr("Payload")
        ELSE IF first_char.val = 80 THEN DecodeOk([msg |-> portal, name |-> name.val])
        ELSE IF first_char.val = 83 THEN DecodeOk([msg |-> statement, name |-> name.val])
        ELSE DecodeErr("InvalidTypeByte")

DecodeExecute(buffer) ==
    LET portal_name == read_cstr(buffer)
    IN  IF ~portal_name.ok THEN DecodeErr("Payload") ELSE
    LET max_rows == read_i32(portal_name.rest)
    IN  IF ~max_rows.ok THEN DecodeErr("Payload")
        ELSE DecodeOk([msg |-> "Execute", portal_name |-> portal_name.val,
                       max_rows |-> max_rows.val])

DecodeParse(buffer) ==
    LET statement_name == read_cstr(buffer)
    IN  IF ~statement_name.ok THEN DecodeErr("Payload") ELSE
    LET sql == read_cstr(statement_name.rest)
    IN  IF ~sql.ok THEN DecodeErr("Payload") ELSE
    LET n == read_i16(sql.rest)
    IN  IF ~n.ok THEN DecodeErr("Payload") ELSE
    LET param_types == ReadOids(n.rest, n.val, <<>>)
    IN  IF ~param_types.ok THEN DecodeErr(param_types.err)
        ELSE DecodeOk([msg |-> "Parse", statement_name |-> statement_name.val,
                       sql |-> sql.val, param_types |-> param_types.val])

\* MessageDecoder::decode
Decode(tag, buffer) ==
    IF tag = QUERY THEN DecodeQuery(buffer)
    ELSE IF tag = BIND THEN DecodeBind(buffer)
    ELSE IF tag = CLOSE THEN DecodeNamed(buffer, "ClosePortal", "CloseStatement")
    ELSE IF tag = DESCRIBE THEN DecodeNamed(buffer, "DescribePortal", "DescribeStatement")
    ELSE IF tag = EXECUTE THEN DecodeExecute(buffer)
    ELSE IF tag = FLUSH THEN DecodeOk([msg |-> "Flush"])
    ELSE IF tag = PARSE THEN DecodeParse(buffer)
    ELSE IF tag = SYNC THEN DecodeOk([msg |-> "Sync"])
    ELSE IF tag = TERMINATE THEN DecodeOk([msg |-> "Terminate"])
    ELSE DecodeErr("UnsupportedFrontendMessage")

\* message_decoder::State, with the byte that State::Tag carries
DecNone == [name |-> "None", tag |-> 0]
DecRequestingTag == [name |-> "RequestingTag", tag |-> 0]
DecTagState(b) == [name |-> "Tag", tag |-> b]
DecWaitingForPayload == [name |-> "WaitingForPayload", tag |-> 0]

Requesting(u) == [kind |-> "Requesting", n |-> u.n, huge |-> u.huge]
DecDone(m) == [kind |-> "Done", msg |-> m]
DecError(e) == [kind |-> "Err", err |-> e]
DecPanic == [kind |-> "Panic"]

\* mutant: an empty buffer is taken for tag 0
DecStageRequestingTag_NoCheck(tag, buf) ==
    IF buf = <<>> THEN [state |-> DecTagState(0), tag |-> tag, res |-> Requesting(AsUsize(4))]
    ELSE [state |-> DecTagState(buf[1]), tag |-> tag, res |-> Requesting(AsUsize(4))]

\* Some(State::RequestingTag)
DecStageRequestingTag(tag, buf) ==
    IF buf = <<>> THEN [state |-> DecNone, tag |-> tag, res |-> DecError("MissingMessageTag")]
    ELSE [state |-> DecTagState(buf[1]), tag |-> tag, res |-> Requesting(AsUsize(4))]

\* Some(State::Tag(tag)): tag and state are stored before the length is read,
\* so they stay stored when read_i32 fails; `- 4` is an i32 subtraction
DecStageTag(newTag, buf, ovf) ==
    LET len == read_i32(buf)
    IN  IF ~len.ok
        THEN [state |-> DecWaitingForPayload, tag |-> newTag, res |-> DecError("Payload")]
        ELSE IF len.val < I32_MIN + 4
             THEN IF ovf = "panic"
                  THEN [state |-> DecWaitingForPayload, tag |-> newTag, res |-> DecPanic]
                  ELSE [state |-> DecWaitingForPayload, tag |-> newTag,
                        res |-> Requesting(AsUsize((len.val + I32_MAX) + (I32_MAX - 2)))]
        ELSE [state |-> DecWaitingForPayload, tag |-> newTag,
              res |-> Requesting(AsUsize(len.val - 4))]

\* mutant: the payload is decoded from its second byte on
DecStagePayload_DropsByte(tag, buf) ==
    LET message == Decode(tag, advance(buf, 1))
    IN  IF ~message.ok THEN [state |-> DecNone, tag |-> tag, res |-> DecError(message.err)]
        ELSE [state |-> DecNone, tag |-> tag, res |-> DecDone(message.val)]

\* mutant: the decoder stays in WaitingForPayload after a message
DecStagePayload_Stays(tag, buf) ==
    LET message == Decode(tag, buf)
    IN  IF ~message.ok THEN [state |-> DecNone, tag |-> tag, res |-> DecError(message.err)]
        ELSE [state |-> DecWaitingForPayload, tag |-> tag, res |-> DecDone(message.val)]

\* Some(State::WaitingForPayload)
DecStagePayload(tag, buf) ==
    LET message == Decode(tag, buf)
    IN  IF ~message.ok THEN [state |-> DecNone, tag |-> tag, res |-> DecError(message.err)]
        ELSE [state |-> DecNone, tag |-> tag, res |-> DecDone(message.val)]

\* next_stage that keeps the tag of the first message it was given
DecNextStage_StaleTag(state, tag, payload, ovf) ==
    LET buf == IF payload.some THEN payload.bytes ELSE <<>>
    IN  IF state.name = "None"
        THEN [state |-> DecRequestingTag, tag |-> tag, res |-> Requesting(AsUsize(1))]
        ELSE IF state.name = "RequestingTag" THEN DecStageRequestingTag(tag, buf)
        ELSE IF state.name = "Tag"
             THEN DecStageTag(IF tag = 0 THEN state.tag ELSE tag, buf, ovf)
        ELSE DecStagePayload(tag, buf)

\* MessageDecoder::next_stage
DecNextStage(state, tag, payload, ovf) ==
    LET buf == IF payload.some THEN payload.bytes ELSE <<>>
    IN  IF state.name = "None"
        THEN [state |-> DecRequestingTag, tag |-> tag, res |-> Requesting(AsUsize(1))]
        ELSE IF state.name = "RequestingTag" THEN DecStageRequestingTag(tag, buf)
        ELSE IF state.name = "Tag" THEN DecStageTag(state.tag, buf, ovf)
        ELSE DecStagePayload(tag, buf)

----------------------------------------------------------------------------
(* Inputs a client can send during the handshake                           *)

Alphabet == {0, 97, 255}
Strs == {<<>>, <<98, 195, 169>>}

RECURSIVE SeqsUpTo(_, _)
SeqsUpTo(S, n) ==
    IF n = 0 THEN {<<>>}
    ELSE LET shorter == SeqsUpTo(S, n - 1)
         IN  shorter \cup {Append(s, x) : s \in {t \in shorter : Len(t) = n - 1}, x \in S}

\* what a client writes for a list of startup parameters
cstr(s) == s \o <<0>>

RECURSIVE EncodeProps(_)
EncodeProps(props) ==
    IF props = <<>> THEN <<>>
    ELSE cstr(props[1][1]) \o cstr(props[1][2]) \o EncodeProps(advance(props, 1))

StartupBody(props) == I32ToBe(VERSION_3_CODE) \o EncodeProps(props) \o <<0>>
StartupMessage(props) == I32ToBe(Len(StartupBody(props)) + 4) \o StartupBody(props)

PropLists == SeqsUpTo(Strs \X Strs, MaxProps)
Junk == SeqsUpTo(Alphabet, MaxJunk)

HsLengths == {I32ToBe(l) : l \in {0, 3, 4, 8, 9, 16, 33, -1, I32_MIN, I32_MIN + 3, I32_MAX}}
HsCodes == {VERSION_1_CODE, VERSION_2_CODE, VERSION_3_CODE, CANCEL_REQUEST_CODE,
            SSL_REQUEST_CODE, GSSENC_REQUEST_CODE, 287454020, 0, -1}
HsBodies ==
    {StartupBody(p) : p \in PropLists}
    \cup {I32ToBe(VERSION_3_CODE) \o j : j \in Junk}
    \cup {I32ToBe(CANCEL_REQUEST_CODE) \o I32ToBe(id) \o I32ToBe(key) : id \in {1, -1}, key \in {2, I32_MIN}}
    \cup {I32ToBe(CANCEL_REQUEST_CODE) \o I32ToBe(1) \o <<0, 0>>}
    \cup {I32ToBe(c) \o j : c \in HsCodes, j \in {<<>>, <<97, 0, 98, 0, 0>>}}
    \cup {<<>>, <<0, 3>>}
HsPayloads == {NoPayload} \cup {SomePayload(b) : b \in HsLengths \cup HsBodies}

----------------------------------------------------------------------------
(* A handshake Process driven call by call, as the unit tests drive it     *)

HsInit ==
    /\ hsState = "None"
    /\ hsPrev = "None"
    /\ hsIn = NoPayload
    /\ hsRes = [kind |-> "Start"]
    /\ hsCalls = 0
    /\ hsSsl = 0
    /\ hsEnded = FALSE

HsCall(payload, ovf) ==
    LET r == HsNextStage(hsState, payload, ovf)
    IN  /\ hsCalls < MaxCalls
        /\ hsRes.kind # "Panic"
        /\ hsPrev' = hsState
        /\ hsIn' = payload
        /\ hsState' = r.state
        /\ hsRes' = r.res
        /\ hsCalls' = hsCalls + 1
        /\ hsSsl' = IF r.res.kind = "UpdatingToSecureWithReadingBytes" THEN hsSsl + 1 ELSE hsSsl
        /\ hsEnded' = (hsEnded \/ hsRes.kind \in {"Done", "Cancel", "Err"})
        /\ UNCHANGED <<fnVars, sndVars, decVars, supVars, accVars>>

\* the builds differ only where `len - 4` overflows
Builds(payload) ==
    IF payload.some /\ Len(payload.bytes) >= 4 /\ payload.bytes[1] = 128
    THEN {"panic", "wrap"} ELSE {"wrap"}

HsNext == \E payload \in HsPayloads : \E ovf \in Builds(payload) : HsCall(payload, ovf)

----------------------------------------------------------------------------
(* Inputs a client can send after the handshake                            *)

\* i16::to_be_bytes
I16ToBe(x) == LET u == IF x < 0 THEN x + 65536 ELSE x IN <<u \div 256, u % 256>>

\* PgType::type_oid, and 0 for an unspecified type
type_oid(t) ==
    CASE t = "Bool" -> 16 [] t = "Char" -> 18 [] t = "BigInt" -> 20
      [] t = "SmallInt" -> 21 [] t = "Integer" -> 23 [] t = "VarChar" -> 1043
      [] t = "None" -> 0

RECURSIVE Concat(_)
Concat(ss) == IF ss = <<>> THEN <<>> ELSE ss[1] \o Concat(advance(ss, 1))

FormatCode(f) == I16ToBe(IF f = "Text" THEN 0 ELSE 1)
ParamBytes(v) == IF v.some THEN I32ToBe(Len(v.bytes)) \o v.bytes ELSE I32ToBe(-1)
OidBytes(t) == I32ToBe(type_oid(t))

\* the tag and the body a client writes for a frontend message
FrontendTag(m) ==
    CASE m.msg = "Query" -> QUERY [] m.msg = "Bind" -> BIND
      [] m.msg \in {"ClosePortal", "CloseStatement"} -> CLOSE
      [] m.msg \in {"DescribePortal", "DescribeStatement"} -> DESCRIBE
      [] m.msg = "Execute" -> EXECUTE [] m.msg = "Flush" -> FLUSH
      [] m.msg = "Parse" -> PARSE [] m.msg = "Sync" -> SYNC
      [] m.msg = "Terminate" -> TERMINATE

FrontendBody(m) ==
    CASE m.msg = "Query" -> cstr(m.sql)
      [] m.msg = "Bind" ->
            cstr(m.portal_name) \o cstr(m.statement_name)
            \o I16ToBe(Len(m.param_formats)) \o Concat([i \in 1..Len(m.param_formats) |-> FormatCode(m.param_formats[i])])
            \o I16ToBe(Len(m.raw_params)) \o Concat([i \in 1..Len(m.raw_params) |-> ParamBytes(m.raw_params[i])])
            \o I16ToBe(Len(m.result_formats)) \o Concat([i \in 1..Len(m.result_formats) |-> FormatCode(m.result_formats[i])])
      [] m.msg \in {"ClosePortal", "DescribePortal"} -> <<80>> \o cstr(m.name)
      [] m.msg \in {"CloseStatement", "DescribeStatement"} -> <<83>> \o cstr(m.name)
      [] m.msg = "Execute" -> cstr(m.portal_name) \o I32ToBe(m.max_rows)
      [] m.msg = "Parse" ->
            cstr(m.statement_name) \o cstr(m.sql)
            \o I16ToBe(Len(m.param_types)) \o Concat([i \in 1..Len(m.param_types) |-> OidBytes(m.param_types[i])])
      [] m.msg \in {"Flush", "Sync", "Terminate"} -> <<>>

SampleMsgs ==
    {[msg |-> "Query", sql |-> q] : q \in {<<>>, <<97>>}}
    \cup {[msg |-> k, name |-> <<97>>] :
             k \in {"ClosePortal", "CloseStatement", "DescribePortal", "DescribeStatement"}}
    \cup {[msg |-> "Execute", portal_name |-> <<97>>, max_rows |-> r] : r \in {0, -1}}
    \cup {[msg |-> k] : k \in {"Flush", "Sync", "Terminate"}}
    \cup {[msg |-> "Parse", statement_name |-> <<>>, sql |-> <<97>>, param_types |-> ts] :
             ts \in {<<>>, <<"Integer", "None">>}}
    \cup {[msg |-> "Bind", portal_name |-> <<97>>, statement_name |-> <<>>,
            param_formats |-> <<"Binary">>,
            raw_params |-> <<[some |-> TRUE, bytes |-> <<1>>], [some |-> FALSE, bytes |-> <<>>]>>,
            result_formats |-> <<"Text">>]}

DecTags == {QUERY, BIND, CLOSE, DESCRIBE, EXECUTE, FLUSH, PARSE, SYNC, TERMINATE, 122}
DecBodies ==
    {FrontendBody(m) : m \in SampleMsgs}
    \cup {<<97>>, <<255, 0>>, <<120, 97, 0>>, <<97, 0, 0, 0>>, <<0, 0, 0, 1, 0, 0, 0, 17>>,
          <<0, 0, 0, 1, 0, 2, 0, 0, 0, 0>>}
DecLengths ==
    {I32ToBe(Len(b) + 4) : b \in DecBodies}
    \cup {I32ToBe(l) : l \in {0, 3, -1, I32_MIN, I32_MIN + 3}}
DecChunks == {<<t>> : t \in DecTags} \cup DecLengths \cup DecBodies \cup {<<>>, <<81, 0>>}
DecPayloads == {NoPayload} \cup {SomePayload(b) : b \in DecChunks}

\* chunks of the stream 'Q' 0 0 0 6 'a' 0 and of its neighbours, cut where the
\* decoder asks and elsewhere
SplitChunks ==
    {<<81>>, <<88>>, <<0, 0, 0, 6>>, <<0, 0, 0, 5>>, <<0, 0, 0, 4>>, <<97, 0>>, <<0>>, <<>>,
     <<81, 0>>, <<0, 0, 6, 97>>, <<81, 0, 0, 0, 6>>, <<97>>}

----------------------------------------------------------------------------
(* A MessageDecoder driven call by call                                    *)

DecInit ==
    /\ decState = DecNone
    /\ decTag = 0
    /\ decPrev = DecNone
    /\ decIn = NoPayload
    /\ decRes = [kind |-> "Start"]
    /\ decMsgs = 0
    /\ decFed = <<>>
    /\ decExact = TRUE

DecStep(payload, ovf) ==
    LET r == DecNextStage(decState, decTag, payload, ovf)
    IN  /\ decMsgs < MaxMsgs
        /\ decRes.kind # "Panic"
        /\ decPrev' = decState
        /\ decIn' = payload
        /\ decState' = r.state
        /\ decTag' = r.tag
        /\ decRes' = r.res
        /\ decMsgs' = IF r.res.kind = "Done" THEN decMsgs + 1 ELSE decMsgs

\* any payload at any stage
DecCall(payload, ovf) ==
    /\ DecStep(payload, ovf)
    /\ UNCHANGED <<decFed, decExact, hsVars, supVars, accVars>>

\* a cycle is begun with next_stage(None); then chunks are fed, cut anywhere,
\* for as long as the decoder returns no error
DecBegin ==
    /\ decState.name = "None"
    /\ DecStep(NoPayload, "wrap")
    /\ decFed' = <<>>
    /\ decExact' = TRUE
    /\ UNCHANGED <<hsVars, supVars, accVars>>

DecFeed(chunk) ==
    /\ decState.name # "None"
    /\ decRes.kind # "Err"
    /\ Len(decFed) + Len(chunk) <= MaxFed
    /\ DecStep(SomePayload(chunk), "wrap")
    /\ decFed' = decFed \o chunk
    /\ decExact' = (/\ decExact
                    /\ decRes.kind = "Requesting"
                    /\ ~decRes.huge
                    /\ Len(chunk) = decRes.n)
    /\ UNCHANGED <<hsVars, supVars, accVars>>

DecoderNext == \E payload \in DecPayloads : \E ovf \in Builds(payload) : DecCall(payload, ovf)

SplitNext == DecBegin \/ \E chunk \in SplitChunks : DecFeed(chunk)

----------------------------------------------------------------------------
(* Connection supervisor: connection::ConnSupervisorInner                  *)

\* the fields of the ConnSupervisorInner behind the mutex
SupFields ==
    [next_id |-> next_id, max_id |-> max_id, free_ids |-> free_ids,
     current_mapping |-> current_mapping]

\* HashMap::insert and HashMap::remove
MapInsert(m, k, v) == [i \in DOMAIN m \cup {k} |-> IF i = k THEN v ELSE m[i]]
MapRemove(m, k) == [i \in DOMAIN m \ {k} |-> m[i]]

SupPanic == [kind |-> "Panic"]

\* generate_conn_id that looks at next_id before it looks at the free list
generate_conn_id_RangeFirst(s, ovf) ==
    IF s.next_id > s.max_id THEN [s |-> s, res |-> [kind |-> "Err"]]
    ELSE IF s.free_ids # <<>>
    THEN [s |-> [s EXCEPT !.free_ids = advance(s.free_ids, 1)],
          res |-> [kind |-> "Ok", id |-> s.free_ids[1]]]
    ELSE IF s.next_id = I32_MAX
         THEN IF ovf = "panic"
              THEN [s |-> s, res |-> SupPanic]
              ELSE [s |-> [s EXCEPT !.next_id = I32_MIN],
                    res |-> [kind |-> "Ok", id |-> s.next_id]]
    ELSE [s |-> [s EXCEPT !.next_id = s.next_id + 1],
          res |-> [kind |-> "Ok", id |-> s.next_id]]

\* ConnSupervisorInner::generate_conn_id: `self.next_id += 1` is an i32
\* addition, at i32::MAX it panics in a debug build and wraps in a release build
generate_conn_id(s, ovf) ==
    IF s.free_ids # <<>>
    THEN [s |-> [s EXCEPT !.free_ids = advance(s.free_ids, 1)],
          res |-> [kind |-> "Ok", id |-> s.free_ids[1]]]
    ELSE IF s.next_id > s.max_id THEN [s |-> s, res |-> [kind |-> "Err"]]
    ELSE IF s.next_id = I32_MAX
         THEN IF ovf = "panic"
              THEN [s |-> s, res |-> SupPanic]
              ELSE [s |-> [s EXCEPT !.next_id = I32_MIN],
                    res |-> [kind |-> "Ok", id |-> s.next_id]]
    ELSE [s |-> [s EXCEPT !.next_id = s.next_id + 1],
          res |-> [kind |-> "Ok", id |-> s.next_id]]

\* ConnSupervisorInner::alloc, secret_key being what rand::thread_rng().gen() gave
alloc(s, secret_key, ovf) ==
    LET g == generate_conn_id(s, ovf)
    IN  IF g.res.kind # "Ok" THEN g
        ELSE [s |-> [g.s EXCEPT !.current_mapping = MapInsert(@, g.res.id, secret_key)],
              res |-> [kind |-> "Ok", conn_id |-> g.res.id, secret_key |-> secret_key]]

\* free that hands the id back and leaves its key in the map
free_KeepsKey(s, conn_id) ==
    IF conn_id \in DOMAIN s.current_mapping
    THEN [s EXCEPT !.free_ids = Append(@, conn_id)]
    ELSE s

\* free that hands the id back whether or not it was live
free_Unchecked(s, conn_id) ==
    [s EXCEPT !.current_mapping = MapRemove(@, conn_id),
              !.free_ids = Append(@, conn_id)]

\* ConnSupervisorInner::free
free(s, conn_id) ==
    IF conn_id \in DOMAIN s.current_mapping
    THEN [s EXCEPT !.current_mapping = MapRemove(@, conn_id),
                   !.free_ids = Append(@, conn_id)]
    ELSE s

\* verify that looks for the id only
verify_AnyKey(s, conn_id, secret_key) ==
    conn_id \in DOMAIN s.current_mapping

\* ConnSupervisorInner::verify
verify(s, conn_id, secret_key) ==
    conn_id \in DOMAIN s.current_mapping /\ s.current_mapping[conn_id] = secret_key

\* a method of ConnSupervisor: self.inner.lock().unwrap() and the call on the
\* inner value; a panic under the lock poisons the mutex, and unwrap() of a
\* poisoned lock panics
SupCall(call, after, res) ==
    /\ supLast' = [call |-> call, before |-> SupFields, issued |-> supIssued,
                   freed |-> supFreed, res |-> IF poisoned THEN SupPanic ELSE res]
    /\ supIssued' =
            IF poisoned THEN supIssued
            ELSE IF call.op = "alloc" /\ res.kind = "Ok"
                 THEN MapInsert(supIssued, res.conn_id, res.secret_key)
            ELSE IF call.op = "free" THEN MapRemove(supIssued, call.conn_id)
            ELSE supIssued
    /\ supFreed' =
            IF poisoned THEN supFreed
            ELSE IF call.op = "alloc" /\ res.kind = "Ok" THEN supFreed \ {res.conn_id}
            ELSE IF call.op = "free" THEN supFreed \cup {call.conn_id}
            ELSE supFreed
    /\ next_id' = IF poisoned THEN next_id ELSE after.next_id
    /\ free_ids' = IF poisoned THEN free_ids ELSE after.free_ids
    /\ current_mapping' = IF poisoned THEN current_mapping ELSE after.current_mapping
    /\ poisoned' = (poisoned \/ res.kind = "Panic")
    /\ UNCHANGED <<min_id, max_id, thVars>>

SupAllocCall(secret_key, ovf) ==
    LET r == alloc(SupFields, secret_key, ovf)
    IN  SupCall([op |-> "alloc"], r.s, r.res)

SupFreeCall(conn_id) ==
    SupCall([op |-> "free", conn_id |-> conn_id], free(SupFields, conn_id), [kind |-> "Unit"])

SupVerifyCall(conn_id, secret_key) ==
    SupCall([op |-> "verify", conn_id |-> conn_id, secret_key |-> secret_key], SupFields,
            [kind |-> "Bool", val |-> verify(SupFields, conn_id, secret_key)])

----------------------------------------------------------------------------
(* A ConnSupervisor driven call by call                                    *)

\* (min_id, max_id) pairs the supervisor is created with
SupConfigs == {<<1, 2>>, <<3, 2>>, <<I32_MAX - 1, I32_MAX>>, <<I32_MAX, I32_MAX>>}
\* what the random generator can give
SupKeys == {2, 7}
\* ids a caller can pass: the live ones, the ends of the range, one outside
SupIds == DOMAIN current_mapping \cup {min_id, max_id, 0}
\* the builds differ only where `next_id += 1` overflows
SupBuilds == IF free_ids = <<>> /\ next_id = I32_MAX THEN {"panic", "wrap"} ELSE {"wrap"}

\* threads that each own a clone of the ConnSupervisor
Threads == {1, 2}
\* calls the threads make between them in one run
MaxThreadCalls == 3
ThNoCall == [op |-> "none"]
ThNoLocal == [before |-> <<>>, id |-> 0]

\* ConnSupervisor::new(lo, hi)
SupStart(lo, hi) ==
    /\ min_id = lo
    /\ next_id = lo
    /\ max_id = hi
    /\ free_ids = <<>>
    /\ current_mapping = <<>>
    /\ poisoned = FALSE
    /\ supLast = [call |-> [op |-> "new"]]
    /\ supOps = 0
    /\ supIssued = <<>>
    /\ supFreed = {}
    /\ mutex = 0
    /\ thPc = [t \in Threads |-> "idle"]
    /\ thCall = [t \in Threads |-> ThNoCall]
    /\ thLocal = [t \in Threads |-> ThNoLocal]

SupInit == \E cfg \in SupConfigs : SupStart(cfg[1], cfg[2])

SupAlloc(secret_key, ovf) ==
    /\ supOps < MaxOps
    /\ SupAllocCall(secret_key, ovf)
    /\ supOps' = supOps + 1
    /\ UNCHANGED <<hsVars, decVars, accVars>>

SupFree(conn_id) ==
    /\ supOps < MaxOps
    /\ SupFreeCall(conn_id)
    /\ supOps' = supOps + 1
    /\ UNCHANGED <<hsVars, decVars, accVars>>

SupVerify(conn_id, secret_key) ==
    /\ supOps < MaxOps
    /\ SupVerifyCall(conn_id, secret_key)
    /\ supOps' = supOps + 1
    /\ UNCHANGED <<hsVars, decVars, accVars>>

SupervisorNext ==
    \/ \E secret_key \in SupKeys : \E ovf \in SupBuilds : SupAlloc(secret_key, ovf)
    \/ \E conn_id \in SupIds : SupFree(conn_id)
    \/ \E conn_id \in SupIds : \E secret_key \in SupKeys : SupVerify(conn_id, secret_key)

----------------------------------------------------------------------------
(* Clones of one ConnSupervisor called from several threads: every method  *)
(* is self.inner.lock().unwrap() followed by the inner method, whose       *)
(* statements run one by one while the MutexGuard is alive                 *)

\* the lock is never taken: the inner methods run unguarded
MutexAvailable_NoLock(t) == TRUE

\* Mutex::lock returns to one thread at a time
MutexAvailable(t) == mutex = 0

\* the calls a thread can make
ThCalls ==
    {[op |-> "alloc"]}
        \cup {[op |-> "free", conn_id |-> id] : id \in SupIds}
        \cup {[op |-> "verify", conn_id |-> id, secret_key |-> k] : id \in SupIds, k \in SupKeys}

\* the method returns (or unwinds): the guard is dropped, the result is the caller's
ThReturn(t, res, after) ==
    /\ supLast' = [call |-> thCall[t], before |-> thLocal[t].before, issued |-> supIssued,
                   freed |-> supFreed, res |-> res, after |-> after]
    /\ supIssued' =
            IF thCall[t].op = "alloc" /\ res.kind = "Ok"
            THEN MapInsert(supIssued, res.conn_id, res.secret_key)
            ELSE IF thCall[t].op = "free" /\ res.kind = "Unit"
                 THEN MapRemove(supIssued, thCall[t].conn_id)
            ELSE supIssued
    /\ supFreed' =
            IF thCall[t].op = "alloc" /\ res.kind = "Ok" THEN supFreed \ {res.conn_id}
            ELSE IF thCall[t].op = "free" /\ res.kind = "Unit"
                 THEN supFreed \cup {thCall[t].conn_id}
            ELSE supFreed
    /\ mutex' = IF mutex = t THEN 0 ELSE mutex
    /\ poisoned' = (poisoned \/ (res.kind = "Panic" /\ thPc[t] # "lock"))
    /\ thPc' = [thPc EXCEPT ![t] = "idle"]
    /\ thCall' = [thCall EXCEPT ![t] = ThNoCall]
    /\ thLocal' = [thLocal EXCEPT ![t] = ThNoLocal]

\* the statement goes on inside the method
ThGoto(t, pc, id) ==
    /\ thPc' = [thPc EXCEPT ![t] = pc]
    /\ thLocal' = [thLocal EXCEPT ![t].id = id]
    /\ UNCHANGED <<mutex, thCall, poisoned, supLast, supIssued, supFreed>>

\* a thread calls alloc, free or verify on its clone
ThStart(t, call) ==
    /\ thPc[t] = "idle"
    /\ supOps < MaxThreadCalls
    /\ supOps' = supOps + 1
    /\ thPc' = [thPc EXCEPT ![t] = "lock"]
    /\ thCall' = [thCall EXCEPT ![t] = call]
    /\ UNCHANGED <<min_id, next_id, max_id, free_ids, current_mapping, poisoned, supLast,
                   supIssued, supFreed, mutex, thLocal>>
    /\ UNCHANGED <<hsVars, decVars, accVars>>

\* self.inner.lock().unwrap()
ThLock(t) ==
    /\ thPc[t] = "lock"
    /\ MutexAvailable(t)
    /\ IF poisoned
       THEN ThReturn(t, SupPanic, SupFields)
       ELSE /\ mutex' = t
            /\ thPc' = [thPc EXCEPT ![t] =
                            CASE thCall[t].op = "alloc" -> "pop_front"
                              [] thCall[t].op = "free" -> "remove"
                              [] OTHER -> "get"]
            /\ thLocal' = [thLocal EXCEPT ![t].before = SupFields]
            /\ UNCHANGED <<thCall, poisoned, supLast, supIssued, supFreed>>
    /\ UNCHANGED <<min_id, next_id, max_id, free_ids, current_mapping, supOps>>
    /\ UNCHANGED <<hsVars, decVars, accVars>>

\* generate_conn_id: match self.free_ids.pop_front(), let id = self.next_id,
\* if id > self.max_id
ThPopFront(t) ==
    /\ thPc[t] = "pop_front"
    /\ IF free_ids # <<>>
       THEN /\ free_ids' = advance(free_ids, 1)
            /\ ThGoto(t, "insert", free_ids[1])
       ELSE /\ free_ids' = free_ids
            /\ IF next_id > max_id
               THEN ThReturn(t, [kind |-> "Err"], SupFields)
               ELSE ThGoto(t, "increment", next_id)
    /\ UNCHANGED <<min_id, next_id, max_id, current_mapping, supOps>>
    /\ UNCHANGED <<hsVars, decVars, accVars>>

\* generate_conn_id: self.next_id += 1
ThIncrement(t, ovf) ==
    /\ thPc[t] = "increment"
    /\ IF next_id = I32_MAX
       THEN IF ovf = "panic"
            THEN next_id' = next_id /\ ThReturn(t, SupPanic, SupFields)
            ELSE next_id' = I32_MIN /\ ThGoto(t, "insert", thLocal[t].id)
       ELSE next_id' = next_id + 1 /\ ThGoto(t, "insert", thLocal[t].id)
    /\ UNCHANGED <<min_id, max_id, free_ids, current_mapping, supOps>>
    /\ UNCHANGED <<hsVars, decVars, accVars>>

\* alloc: the key is drawn, self.current_mapping.insert(conn_id, secret_key), Ok
ThInsert(t, secret_key) ==
    /\ thPc[t] = "insert"
    /\ current_mapping' = MapInsert(current_mapping, thLocal[t].id, secret_key)
    /\ ThReturn(t, [kind |-> "Ok", conn_id |-> thLocal[t].id, secret_key |-> secret_key],
                [SupFields EXCEPT !.current_mapping = MapInsert(@, thLocal[t].id, secret_key)])
    /\ UNCHANGED <<min_id, next_id, max_id, free_ids, supOps>>
    /\ UNCHANGED <<hsVars, decVars, accVars>>

\* free: self.current_mapping.remove(&conn_id).is_some()
ThRemove(t) ==
    /\ thPc[t] = "remove"
    /\ current_mapping' = MapRemove(current_mapping, thCall[t].conn_id)
    /\ IF thCall[t].conn_id \in DOMAIN current_mapping
       THEN ThGoto(t, "push_back", thCall[t].conn_id)
       ELSE ThReturn(t, [kind |-> "Unit"], SupFields)
    /\ UNCHANGED <<min_id, next_id, max_id, free_ids, supOps>>
    /\ UNCHANGED <<hsVars, decVars, accVars>>

\* free: self.free_ids.push_back(conn_id)
ThPushBack(t) ==
    /\ thPc[t] = "push_back"
    /\ free_ids' = Append(free_ids, thLocal[t].id)
    /\ ThReturn(t, [kind |-> "Unit"],
                [SupFields EXCEPT !.free_ids = Append(@, thLocal[t].id)])
    /\ UNCHANGED <<min_id, next_id, max_id, current_mapping, supOps>>
    /\ UNCHANGED <<hsVars, decVars, accVars>>

\* verify: match self.current_mapping.get(&conn_id)
ThGet(t) ==
    /\ thPc[t] = "get"
    /\ ThReturn(t, [kind |-> "Bool",
                    val |-> verify(SupFields, thCall[t].conn_id, thCall[t].secret_key)],
                SupFields)
    /\ UNCHANGED <<min_id, next_id, max_id, free_ids, current_mapping, supOps>>
    /\ UNCHANGED <<hsVars, decVars, accVars>>

ConcurrentNext ==
    \E t \in Threads :
        \/ \E call \in ThCalls : ThStart(t, call)
        \/ ThLock(t)
        \/ ThPopFront(t)
        \/ \E ovf \in SupBuilds : ThIncrement(t, ovf)
        \/ \E secret_key \in SupKeys : ThInsert(t, secret_key)
        \/ ThRemove(t)
        \/ ThPushBack(t)
        \/ ThGet(t)

----------------------------------------------------------------------------
(* The listener: connection::listener::PgWireListener::accept              *)

\* what a call of accept comes to
AccRunning == [kind |-> "Running"]
ClientConnect(conn_id, secret_key, props) ==
    [kind |-> "Connect", conn_id |-> conn_id, secret_key |-> secret_key, props |-> props,
     secure |-> accChan = "Secure"]
ClientQueryCancellation(conn_id) == [kind |-> "QueryCancellation", conn_id |-> conn_id]
AccRejected == [kind |-> "Rejected"]        \* Ok(Err(()))
AccIoError == [kind |-> "IoError"]          \* Err(io_error)
AccPanicked == [kind |-> "Panic"]

\* the messages the Done arm writes, in order
BackendKeyData(conn_id, secret_key) ==
    [msg |-> "BackendKeyData", conn_id |-> conn_id, secret_key |-> secret_key]

\* the Done arm that answers before it asks for the password
AccDoneWrites_OkFirst(conn_id, secret_key) ==
    <<"AuthenticationOk", "AuthenticationCleartextPassword",
      "ParameterStatus(client_encoding,UTF8)", "ParameterStatus(DateStyle,ISO)",
      "ParameterStatus(integer_datetimes,off)", "ParameterStatus(server_version,12.4)",
      BackendKeyData(conn_id, secret_key), "ReadyForQuery">>

AccDoneWrites(conn_id, secret_key) ==
    <<"AuthenticationCleartextPassword", "AuthenticationOk",
      "ParameterStatus(client_encoding,UTF8)", "ParameterStatus(DateStyle,ISO)",
      "ParameterStatus(integer_datetimes,off)", "ParameterStatus(server_version,12.4)",
      BackendKeyData(conn_id, secret_key), "ReadyForQuery">>

\* what a client sends between two reads of the server
AccBodies ==
    {StartupBody(<<>>), StartupBody(<< <<(<<97>>), <<98, 195, 169>>>> >>),
     I32ToBe(VERSION_3_CODE) \o <<97>>,
     I32ToBe(SSL_REQUEST_CODE), I32ToBe(VERSION_2_CODE),
     I32ToBe(CANCEL_REQUEST_CODE) \o I32ToBe(1) \o I32ToBe(2),
     I32ToBe(CANCEL_REQUEST_CODE) \o I32ToBe(2) \o I32ToBe(7)}
AccLengths ==
    {I32ToBe(Len(b) + 4) : b \in AccBodies}
    \cup {I32ToBe(l) : l \in {4, 3, -1, I32_MIN, I32_MIN + 3}}
AccInputs == {NoPayload} \cup {SomePayload(b) : b \in AccLengths \cup AccBodies}

\* channel.read_exact on a buffer of n bytes: the n bytes the client sent
\* next, or an error (NoPayload); an empty buffer is filled at once
AccReadExact(n) ==
    IF n = 0 THEN {SomePayload(<<>>)}
    ELSE {read \in AccInputs : ~read.some \/ Len(read.bytes) = n}

\* Process::next_stage tabulated over the states of a Process and the values
\* `current` takes
AccStageTable ==
    [state \in {"None", "MessageLen", "ParseSetup"},
     current \in AccInputs \cup {SomePayload(<<>>)},
     ovf \in {"panic", "wrap"} |-> HsNextStage(state, current, ovf)]

\* process.next_stage(current.as_deref()) at the top of the loop
AccStage(ovf) == AccStageTable[accProc, accCur, ovf]

\* what a client answers the password request with: the 4 length bytes of
\* its message, or nothing
AccPasswordLengths ==
    {NoPayload} \cup {SomePayload(I32ToBe(l)) : l \in {3, 4, 9, -1}}
\* the tag byte of its message: 'p', another byte, or nothing
AccPasswordTags == {NoPayload, SomePayload(<<112>>), SomePayload(<<QUERY>>)}
\* the passwords a client sends: none, "abcd" and "wxyz", each with its NUL
AccPasswords == {<<>>, <<97, 98, 99, 100, 0>>, <<119, 120, 121, 122, 0>>}
\* the rest of its message, when the length bytes announce len bytes: one of
\* the passwords of that size, or nothing (the read failed). A message longer
\* than any of them is stood for by the empty one
AccPasswordBodies(len_read) ==
    LET len == read_u32(len_read.bytes).val
        sized == {b \in AccPasswords : len.hi = 0 /\ Len(b) = len.lo - 4}
    IN  IF ~len_read.some THEN {NoPayload}
        ELSE {NoPayload} \cup
             {SomePayload(b) : b \in IF sized = {} THEN {<<>>} ELSE sized}
\* the writes of the Done arm, and 0
AccFailures == 0..Len(AccDoneWrites(0, 0))
\* how self.network.tls_accept ends
AccTls == {"Ok", "NativeTls", "Io"}

\* what a pass of the loop met: nothing, a failed I/O operation or a protocol
\* failure; and the password message it read, if it asked for one
AccNoPwd == [asked |-> FALSE]
AccMet(cause) == [cause |-> cause, pwd |-> AccNoPwd]
AccMetPwd(cause, fail_at, tag_read, len_read, body_read) ==
    [cause |-> cause,
     pwd |-> [asked |-> TRUE, fail_at |-> fail_at, tag_read |-> tag_read,
              len_read |-> len_read, body_read |-> body_read]]

\* a run of accept that has not been through an SSL request
AccNoTls == [calls |-> 0, s |-> 0, from |-> "Closed", via |-> {}]

\* one pass of the loop: the fields it leaves behind
AccPassMet(r, cur, chan, ssl, sent, out, pwd, met, tls_calls) ==
    /\ accMet' = met
    /\ accProc' = r.state
    /\ accStatus' = r.res
    /\ accCur' = cur
    /\ accChan' = chan
    /\ accSsl' = ssl
    /\ accSent' = sent
    /\ accOut' = out
    /\ accPwd' = pwd
    /\ accSessions' = IF out.kind = "Connect" THEN accSessions \cup {out.conn_id}
                      ELSE accSessions
    /\ accTls' = [calls |-> accTls.calls + tls_calls,
                  s |-> IF Len(sent) = 1 /\ sent[1] = "S" THEN accTls.s + 1 ELSE accTls.s,
                  from |-> accChan,
                  via |-> {accChan, chan}]
    /\ UNCHANGED <<accConns, ssl_conf, accHist, conVars>>

\* a pass of an arm that reads no password
AccPass(r, cur, chan, ssl, sent, out, cause) ==
    AccPassMet(r, cur, chan, ssl, sent, out, FALSE, AccMet(cause), 0)

\* self.network.accept(): a client connects, or the call fails
AccAccept(ok) ==
    /\ accOut.kind \notin {"Running", "Panic"}
    /\ accConns < MaxConns
    /\ accConns' = accConns + 1
    /\ accProc' = "None"
    /\ accCur' = NoPayload
    /\ accChan' = IF ok THEN "Plain" ELSE "Closed"
    /\ accStatus' = [kind |-> "Start"]
    /\ accSsl' = 0
    /\ accSent' = <<>>
    /\ accOut' = IF ok THEN AccRunning ELSE AccIoError
    /\ accPwd' = FALSE
    /\ accMet' = AccMet(IF ok THEN "none" ELSE "io")
    /\ accHist' = IF accOut.kind = "Idle" THEN accHist ELSE Append(accHist, accOut.kind)
    /\ accTls' = AccNoTls
    /\ UNCHANGED <<ssl_conf, accSessions, conVars, hsVars, decVars, supVars>>

\* a pass that called self.network.tls_accept
AccPassTls(r, cur, chan, ssl, sent, out, cause) ==
    AccPassMet(r, cur, chan, ssl, sent, out, FALSE, AccMet(cause), 1)

\* next_stage itself panics: `len - 4` overflowed in a debug build
AccOverflow(ovf) ==
    LET r == AccStage(ovf)
    IN  /\ accOut.kind = "Running"
        /\ r.res.kind = "Panic"
        /\ AccPass(r, accCur, accChan, accSsl, <<>>, AccPanicked, "none")
        /\ UNCHANGED <<hsVars, decVars, supVars>>

\* the RequestingBytes arm; vec![b'0'; len] with len above isize::MAX panics
AccRequestingBytes(ovf) ==
    LET r == AccStage(ovf)
    IN  /\ accOut.kind = "Running"
        /\ r.res.kind = "RequestingBytes"
        /\ IF r.res.huge
           THEN AccPass(r, accCur, accChan, accSsl, <<>>, AccPanicked, "none")
           ELSE \E read \in AccReadExact(r.res.n) :
                IF read.some
                THEN AccPass(r, read, accChan, accSsl, <<>>, AccRunning, "none")
                ELSE AccPass(r, accCur, accChan, accSsl, <<>>, AccIoError, "io")
        /\ UNCHANGED <<hsVars, decVars, supVars>>

\* the UpdatingToSecureWithReadingBytes arm: 'S' and the TLS handshake on a
\* plain channel of a listener with an SSL configuration, 'N' otherwise, then
\* the next 4 bytes
AccUpgrades_Always(chan, conf) == conf

\* `Channel::Plain(mut channel) if self.protocol_config.ssl_support()`
AccUpgrades(chan, conf) == chan = "Plain" /\ conf

AccUpdatingToSecure(ovf) ==
    LET r == AccStage(ovf)
        upgrade == AccUpgrades(accChan, ssl_conf)
        ssl == IF accSsl < MaxSsl THEN accSsl + 1 ELSE accSsl
        sent == IF upgrade THEN <<"S">> ELSE <<"N">>
        chan == IF upgrade THEN "Secure" ELSE accChan
    IN  /\ accOut.kind = "Running"
        /\ r.res.kind = "UpdatingToSecureWithReadingBytes"
        /\ \E write_ok \in BOOLEAN : \E tls \in AccTls : \E read \in AccReadExact(4) :
           IF ~write_ok THEN AccPass(r, accCur, accChan, ssl, <<>>, AccIoError, "io")
           ELSE IF upgrade /\ tls = "NativeTls"
                THEN AccPassTls(r, accCur, accChan, ssl, sent, AccRejected, "protocol")
           ELSE IF upgrade /\ tls = "Io"
                THEN AccPassTls(r, accCur, accChan, ssl, sent, AccIoError, "io")
           ELSE IF upgrade /\ read.some
                THEN AccPassTls(r, read, chan, ssl, sent, AccRunning, "none")
           ELSE IF upgrade THEN AccPassTls(r, accCur, chan, ssl, sent, AccIoError, "io")
           ELSE IF read.some THEN AccPass(r, read, chan, ssl, sent, AccRunning, "none")
           ELSE AccPass(r, accCur, chan, ssl, sent, AccIoError, "io")
        /\ UNCHANGED <<hsVars, decVars, supVars>>

\* a Cancel arm that takes the connection it is asked about out of the supervisor
AccCancelled_Frees(s, conn_id, secret_key) ==
    LET known == verify(s, conn_id, secret_key)
    IN  [s |-> IF known THEN free(s, conn_id) ELSE s, known |-> known, sent |-> <<>>,
         out |-> IF known THEN ClientQueryCancellation(conn_id) ELSE AccRejected]

\* what the Cancel arm does with the supervisor's fields s: verify and return
AccCancelled(s, conn_id, secret_key) ==
    LET known == verify(s, conn_id, secret_key)
    IN  [s |-> s, known |-> known, sent |-> <<>>,
         out |-> IF known THEN ClientQueryCancellation(conn_id) ELSE AccRejected]

\* the Cancel arm
AccCancel(ovf) ==
    LET r == AccStage(ovf)
        c == AccCancelled(SupFields, r.res.conn_id, r.res.secret_key)
    IN  /\ accOut.kind = "Running"
        /\ r.res.kind = "Cancel"
        /\ SupCall([op |-> "verify", conn_id |-> r.res.conn_id,
                    secret_key |-> r.res.secret_key],
                   c.s, [kind |-> "Bool", val |-> c.known])
        /\ AccPass(r, accCur, accChan, accSsl, c.sent,
                   IF poisoned THEN AccPanicked ELSE c.out,
                   IF ~poisoned /\ ~c.known THEN "protocol" ELSE "none")
        /\ UNCHANGED <<supOps, hsVars, decVars>>

\* the Err arm
AccError(ovf) ==
    LET r == AccStage(ovf)
    IN  /\ accOut.kind = "Running"
        /\ r.res.kind = "Err"
        /\ AccPass(r, accCur, accChan, accSsl, <<>>, AccRejected, "protocol")
        /\ UNCHANGED <<hsVars, decVars, supVars>>

\* the Done arm up to the call of alloc: the password request is written and
\* the client's answer read (the tag's read result is dropped, the length is a
\* u32 taken as usize, `len - 4` below 0 panics in a debug build and asks
\* Vec::with_capacity for more than isize::MAX in a release build), then
\* AuthenticationOk and the four ParameterStatus are written. fail_at is the
\* write that fails, 0 for none.
AccBeforeAlloc_ChecksPassword(fail_at, tag_read, len_read, body_read) ==
    IF fail_at = 1 THEN [out |-> AccIoError, sent |-> 0, pwd |-> FALSE]
    ELSE IF ~len_read.some THEN [out |-> AccIoError, sent |-> 1, pwd |-> FALSE]
    ELSE IF read_u32(len_read.bytes).val.hi = 0 /\ read_u32(len_read.bytes).val.lo < 4
         THEN [out |-> AccPanicked, sent |-> 1, pwd |-> FALSE]
    ELSE IF ~body_read.some THEN [out |-> AccIoError, sent |-> 1, pwd |-> FALSE]
    ELSE IF tag_read # SomePayload(<<112>>) \/ body_read.bytes # <<97, 98, 99, 100, 0>>
         THEN [out |-> AccRejected, sent |-> 1, pwd |-> TRUE]
    ELSE IF fail_at \in 2..6 THEN [out |-> AccIoError, sent |-> fail_at - 1, pwd |-> TRUE]
    ELSE [out |-> AccRunning, sent |-> 6, pwd |-> TRUE]

\* tag_read, len_read and body_read are what the three read_exact calls gave:
\* the tag is bound to _tag and the message to _message, neither is looked at
AccBeforeAlloc(fail_at, tag_read, len_read, body_read) ==
    IF fail_at = 1 THEN [out |-> AccIoError, sent |-> 0, pwd |-> FALSE]
    ELSE IF ~len_read.some THEN [out |-> AccIoError, sent |-> 1, pwd |-> FALSE]
    ELSE IF read_u32(len_read.bytes).val.hi = 0 /\ read_u32(len_read.bytes).val.lo < 4
         THEN [out |-> AccPanicked, sent |-> 1, pwd |-> FALSE]
    ELSE IF ~body_read.some THEN [out |-> AccIoError, sent |-> 1, pwd |-> FALSE]
    ELSE IF fail_at \in 2..6 THEN [out |-> AccIoError, sent |-> fail_at - 1, pwd |-> TRUE]
    ELSE [out |-> AccRunning, sent |-> 6, pwd |-> TRUE]

\* what the Done arm met: the first I/O operation that failed, or the
\* supervisor having no id left
AccDoneMet(fail_at, tag_read, len_read, body_read, res) ==
    IF fail_at = 1 \/ ~tag_read.some \/ ~len_read.some THEN "io"
    ELSE IF read_u32(len_read.bytes).val.hi = 0 /\ read_u32(len_read.bytes).val.lo < 4
         THEN "none"
    ELSE IF ~body_read.some \/ fail_at \in 2..6 THEN "io"
    ELSE IF res.kind = "Panic" THEN "none"
    ELSE IF res.kind = "Err" THEN "protocol"
    ELSE IF fail_at # 0 THEN "io"
    ELSE "none"

\* the Done arm that takes a refused alloc for a failed write
AccAfterAlloc_ErrIsIo(fail_at, res, props) ==
    IF res.kind = "Panic" THEN [out |-> AccPanicked, sent |-> 6]
    ELSE IF res.kind = "Err" THEN [out |-> AccIoError, sent |-> 6]
    ELSE IF fail_at # 0 THEN [out |-> AccIoError, sent |-> fail_at - 1]
    ELSE [out |-> ClientConnect(res.conn_id, res.secret_key, props),
          sent |-> Len(AccDoneWrites(res.conn_id, res.secret_key))]

\* the Done arm from the call of alloc on
AccAfterAlloc(fail_at, res, props) ==
    IF res.kind = "Panic" THEN [out |-> AccPanicked, sent |-> 6]
    ELSE IF res.kind = "Err" THEN [out |-> AccRejected, sent |-> 6]
    ELSE IF fail_at # 0 THEN [out |-> AccIoError, sent |-> fail_at - 1]
    ELSE [out |-> ClientConnect(res.conn_id, res.secret_key, props),
          sent |-> Len(AccDoneWrites(res.conn_id, res.secret_key))]

\* the Done arm
AccDone ==
    LET r == AccStage("wrap")
    IN  /\ accOut.kind = "Running"
        /\ r.res.kind = "Done"
        /\ \E fail_at \in AccFailures : \E tag_read \in AccPasswordTags :
           \E len_read \in AccPasswordLengths : \E body_read \in AccPasswordBodies(len_read) :
           \E secret_key \in SupKeys : \E ovf \in SupBuilds :
           LET before == AccBeforeAlloc(fail_at, tag_read, len_read, body_read)
               allocated == alloc(SupFields, secret_key, ovf).res
               res == IF poisoned THEN SupPanic ELSE allocated
               after == AccAfterAlloc(fail_at, res, r.res.props)
               met == AccMetPwd(AccDoneMet(fail_at, tag_read, len_read, body_read, res),
                                fail_at, tag_read, len_read, body_read)
           IN  /\ IF before.out.kind # "Running"
                  THEN /\ AccPassMet(r, accCur, accChan, accSsl,
                                     SubSeq(AccDoneWrites(0, 0), 1, before.sent),
                                     before.out, before.pwd, met, 0)
                       /\ UNCHANGED supVars
                  ELSE /\ SupAllocCall(secret_key, ovf)
                       /\ AccPassMet(r, accCur, accChan, accSsl,
                                     SubSeq(IF allocated.kind = "Ok"
                                            THEN AccDoneWrites(allocated.conn_id,
                                                               allocated.secret_key)
                                            ELSE AccDoneWrites(0, 0), 1, after.sent),
                                     after.out, before.pwd, met, 0)
                       /\ UNCHANGED supOps
        /\ UNCHANGED <<hsVars, decVars>>

\* impl Drop for Connection: the owner of a Connection lets it go
ConnDrop(conn_id) ==
    /\ conn_id \in accSessions
    /\ SupFreeCall(conn_id)
    /\ accSessions' = accSessions \ {conn_id}
    /\ UNCHANGED <<accProc, accCur, accChan, accStatus, accSsl, accSent, accOut, accConns,
                   ssl_conf, accPwd, accMet, accHist, accTls, conVars>>
    /\ UNCHANGED <<supOps, hsVars, decVars>>

----------------------------------------------------------------------------
(* connection::Connection: receive and read_frontend_message               *)

\* what receive() comes to
ConnMessage(m) == [kind |-> "Message", msg |-> m]       \* Ok(Ok(message))
ConnRejected == [kind |-> "Rejected"]                   \* Ok(Err(()))
ConnIoError(e) == [kind |-> "IoError", err |-> e]       \* Err(io_error)
ConnPanicked == [kind |-> "Panic"]

\* channel.read_exact(&mut buffer): the tests' TestCase fails a read longer than
\* what is left and consumes nothing; a socket hands over what is left first
ConnReadExact(bytes, n, err, net) ==
    IF Len(bytes) >= n
    THEN [ok |-> TRUE, buf |-> SubSeq(bytes, 1, n), rest |-> advance(bytes, n)]
    ELSE [ok |-> FALSE, err |-> err, rest |-> IF net = "mock" THEN bytes ELSE <<>>]

\* Connection::read_frontend_message from the pass where the decoder is in
\* `state` and `current` holds what the last read gave (what next_stage and
\* read_exact return is drawn from a one-element set: it is computed once)
RECURSIVE ReadLoop(_, _, _, _, _, _)
ReadLoop(state, tag, current, bytes, err, net) ==
    CHOOSE out \in UNION {
        IF r.res.kind = "Requesting"
        THEN IF r.res.huge THEN {[res |-> ConnPanicked, rest |-> bytes, eof |-> FALSE]}
             ELSE {IF read.ok
                   THEN ReadLoop(r.state, r.tag, SomePayload(read.buf), read.rest, err, net)
                   ELSE [res |-> ConnIoError(read.err), rest |-> read.rest,
                         eof |-> read.err = "UnexpectedEof" /\ current.some]
                     : read \in {ConnReadExact(bytes, r.res.n, err, net)}}
        ELSE IF r.res.kind = "Done"
             THEN {[res |-> ConnMessage(r.res.msg), rest |-> bytes, eof |-> FALSE]}
        ELSE {[res |-> ConnRejected, rest |-> bytes, eof |-> FALSE]}
          : r \in {DecNextStage(state, tag, current, "wrap")}} : TRUE

\* Connection::read_frontend_message: a fresh MessageDecoder, nothing read yet
read_frontend_message(bytes, err, net) == ReadLoop(DecNone, 0, NoPayload, bytes, err, net)

\* Connection::receive: `out` is what it returns and leaves on the channel,
\* `met` what read_frontend_message returned to it
receive(bytes, err, net) ==
    CHOOSE got \in
        {[out |-> IF r.res.kind = "IoError" /\ r.res.err = "UnexpectedEof"
                  THEN [r EXCEPT !.res = ConnMessage([msg |-> "Terminate"])]
                  ELSE r,
          met |-> r] : r \in {read_frontend_message(bytes, err, net)}} : TRUE

\* frames a client sends: Query "a", Terminate, Sync, one with an unknown tag
ConnFrames ==
    {<<QUERY, 0, 0, 0, 6, 97, 0>>, <<TERMINATE, 0, 0, 0, 4>>, <<SYNC, 0, 0, 0, 4>>,
     <<122, 0, 0, 0, 4>>}
\* frames a Connection's client sends before it goes away
MaxFrames == 2
\* receive() calls made on one Connection
MaxReceives == 3
ConnWhole == UNION {[1..n -> ConnFrames] : n \in 0..MaxFrames}
\* what the channel holds when the client goes away: whole frames and a cut one
ConnStreams ==
    UNION {{SubSeq(Concat(ss), 1, n) : n \in 0..Len(Concat(ss))} : ss \in ConnWhole}
\* the channel and the error its reads end with
ConnNets == {<<"mock", "UnexpectedEof">>, <<"socket", "UnexpectedEof">>,
             <<"socket", "ConnectionReset">>}

\* a Connection whose client sent `bytes`
ConnStart(bytes, net) ==
    /\ conStream = bytes
    /\ conNet = net[1]
    /\ conErr = net[2]
    /\ conLast = [kind |-> "Start"]
    /\ conCalls = 0
    /\ conEofs = 0

\* no Connection is in use
ConnIdle == ConnStart(<<>>, <<"mock", "UnexpectedEof">>)

ConnInit == \E bytes \in ConnStreams : \E net \in ConnNets : ConnStart(bytes, net)

\* a call of receive() on the Connection
ConnReceive ==
    /\ conCalls < MaxReceives
    /\ conLast.kind # "Panic"
    /\ \E got \in {receive(conStream, conErr, conNet)} :
           /\ conStream' = got.out.rest
           /\ conLast' = [kind |-> got.out.res.kind, res |-> got.out.res,
                          met |-> got.met.res, eof |-> got.met.eof,
                          eofsBefore |-> conEofs]
           /\ conEofs' = IF got.met.eof THEN conEofs + 1 ELSE conEofs
    /\ conCalls' = conCalls + 1
    /\ UNCHANGED <<conErr, conNet>>
    /\ UNCHANGED <<accProc, accCur, accChan, accStatus, accSsl, accSent, accOut, accConns,
                   ssl_conf, accPwd, accSessions, accMet, accHist,
                   accTls>>
    /\ UNCHANGED <<hsVars, decVars, supVars>>

ConnectionNext == ConnReceive

----------------------------------------------------------------------------
(* A listener and the clients that connect to it                           *)

\* a listener created with or without an SSL configuration, no client yet
AccStart(conf) ==
    /\ accProc = "None"
    /\ accCur = NoPayload
    /\ accChan = "Closed"
    /\ accStatus = [kind |-> "Start"]
    /\ accSsl = 0
    /\ accSent = <<>>
    /\ accOut = [kind |-> "Idle"]
    /\ accConns = 0
    /\ ssl_conf = conf
    /\ accPwd = FALSE
    /\ accSessions = {}
    /\ accMet = AccMet("none")
    /\ accHist = <<>>
    /\ accTls = AccNoTls

AccInit == \E conf \in BOOLEAN : AccStart(conf)

\* the passes of the loop
AccLoop ==
    \/ \E ovf \in Builds(accCur) : AccOverflow(ovf)
    \/ \E ovf \in Builds(accCur) : AccRequestingBytes(ovf)
    \/ AccUpdatingToSecure("wrap")
    \/ AccCancel("wrap")
    \/ AccError("wrap")
    \/ AccDone

AcceptNext ==
    \/ \E ok \in BOOLEAN : AccAccept(ok)
    \/ AccLoop
    \/ \E conn_id \in accSessions : ConnDrop(conn_id)

----------------------------------------------------------------------------
(* BackendMessage::as_vec                                                  *)

COMMAND_COMPLETE == 67
DATA_ROW == 68
ERROR_RESPONSE == 69
SEVERITY == 83
CODE == 67
MESSAGE == 77
EMPTY_QUERY_RESPONSE == 73
NOTICE_RESPONSE == 78
AUTHENTICATION == 82
BACKEND_KEY_DATA == 75
PARAMETER_STATUS == 83
ROW_DESCRIPTION == 84
READY_FOR_QUERY == 90
PARAMETER_DESCRIPTION == 116
NO_DATA == 110
PARSE_COMPLETE == 49
BIND_COMPLETE == 50
CLOSE_COMPLETE == 51

\* u32::to_be_bytes
U32ToBe(u) == <<u.hi \div 256, u.hi % 256, u.lo \div 256, u.lo % 256>>

\* PgType::type_len
type_len(t) ==
    CASE t = "Bool" -> 1 [] t = "Char" -> 1 [] t = "BigInt" -> 8
      [] t = "SmallInt" -> 2 [] t = "Integer" -> 4 [] t = "VarChar" -> -1

\* ColumnMetadata::new
ColumnMetadata(name, pg_type) ==
    [name |-> name, type_id |-> U32(type_oid(pg_type)), type_size |-> type_len(pg_type)]

\* the bytes of one DataRow field: its length, then its content
DataRowField(field) == I32ToBe(Len(field)) \o field

\* the bytes of one RowDescription field
RowDescriptionField(field) ==
    field.name \o <<0>> \o I32ToBe(0) \o I16ToBe(0) \o U32ToBe(field.type_id)
    \o I16ToBe(field.type_size) \o I32ToBe(-1) \o I16ToBe(0)

\* one optional field of an ErrorResponse
ErrorField(code, field) == IF field.some THEN <<code>> \o field.bytes \o <<0>> ELSE <<>>

\* BackendMessage::as_vec
as_vec(m) ==
    CASE m.msg = "NoticeResponse" -> <<NOTICE_RESPONSE>>
      [] m.msg = "AuthenticationCleartextPassword" -> <<AUTHENTICATION, 0, 0, 0, 8, 0, 0, 0, 3>>
      [] m.msg = "AuthenticationMD5Password" ->
            <<AUTHENTICATION, 0, 0, 0, 12, 0, 0, 0, 5, 1, 1, 1, 1>>
      [] m.msg = "AuthenticationOk" -> <<AUTHENTICATION, 0, 0, 0, 8, 0, 0, 0, 0>>
      [] m.msg = "BackendKeyData" ->
            <<BACKEND_KEY_DATA, 0, 0, 0, 12>> \o I32ToBe(m.conn_id) \o I32ToBe(m.secret_key)
      [] m.msg = "ReadyForQuery" -> <<READY_FOR_QUERY, 0, 0, 0, 5, EMPTY_QUERY_RESPONSE>>
      [] m.msg = "DataRow" ->
            LET row_buff == Concat([i \in 1..Len(m.row) |-> DataRowField(m.row[i])])
            IN  <<DATA_ROW>> \o I32ToBe(6 + Len(row_buff)) \o I16ToBe(Len(m.row)) \o row_buff
      [] m.msg = "RowDescription" ->
            LET buff == Concat([i \in 1..Len(m.description) |->
                                    RowDescriptionField(m.description[i])])
            IN  <<ROW_DESCRIPTION>> \o I32ToBe(6 + Len(buff)) \o I16ToBe(Len(m.description))
                \o buff
      [] m.msg = "CommandComplete" ->
            <<COMMAND_COMPLETE>> \o I32ToBe(4 + Len(m.command) + 1) \o m.command \o <<0>>
      [] m.msg = "EmptyQueryResponse" -> <<EMPTY_QUERY_RESPONSE, 0, 0, 0, 4>>
      [] m.msg = "ErrorResponse" ->
            LET message_buff == ErrorField(SEVERITY, m.severity) \o ErrorField(CODE, m.code)
                                \o ErrorField(MESSAGE, m.message)
            IN  <<ERROR_RESPONSE>> \o I32ToBe(Len(message_buff) + 4 + 1) \o message_buff \o <<0>>
      [] m.msg = "ParameterStatus" ->
            LET parameters == m.name \o <<0>> \o m.value \o <<0>>
            IN  <<PARAMETER_STATUS>> \o I32ToBe(4 + Len(parameters)) \o parameters
      [] m.msg = "ParameterDescription" ->
            LET type_id_buff == Concat([i \in 1..Len(m.pg_types) |->
                                            U32ToBe(U32(type_oid(m.pg_types[i])))])
            IN  <<PARAMETER_DESCRIPTION>> \o I32ToBe(6 + Len(type_id_buff))
                \o I16ToBe(Len(m.pg_types)) \o type_id_buff
      [] m.msg = "NoData" -> <<NO_DATA, 0, 0, 0, 4>>
      [] m.msg = "ParseComplete" -> <<PARSE_COMPLETE, 0, 0, 0, 4>>
      [] m.msg = "BindComplete" -> <<BIND_COMPLETE, 0, 0, 0, 4>>
      [] m.msg = "CloseComplete" -> <<CLOSE_COMPLETE, 0, 0, 0, 4>>

\* fields of a row, columns of a description, parameters of a statement
MaxFields == 2

\* the PgType variants
PgTypes == {"SmallInt", "Integer", "BigInt", "Char", "VarChar", "Bool"}

\* optional strings of an ErrorResponse
OptStrs == {NoPayload} \cup {SomePayload(s) : s \in Strs \cup {<<97>>}}

\* the messages a server hands to send(), every variant with some field contents
BackendMsgs ==
    {[msg |-> k] : k \in {"NoticeResponse", "AuthenticationCleartextPassword",
                          "AuthenticationMD5Password", "AuthenticationOk", "ReadyForQuery",
                          "EmptyQueryResponse", "NoData", "ParseComplete", "BindComplete",
                          "CloseComplete"}}
    \cup {BackendKeyData(id, key) : id \in {0, 1, -1, I32_MAX}, key \in {0, 7, I32_MIN}}
    \cup {[msg |-> "DataRow", row |-> row] : row \in SeqsUpTo(Strs \cup {<<97>>}, MaxFields)}
    \cup {[msg |-> "RowDescription", description |-> d] :
             d \in SeqsUpTo({ColumnMetadata(n, t) : n \in {<<>>, <<99, 49>>}, t \in PgTypes},
                            MaxFields - 1)}
    \cup {[msg |-> "CommandComplete", command |-> c] : c \in Strs \cup {<<97>>}}
    \cup {[msg |-> "ErrorResponse", severity |-> s, code |-> c, message |-> t] :
             s \in OptStrs, c \in OptStrs, t \in OptStrs}
    \cup {[msg |-> "ParameterStatus", name |-> n, value |-> v] :
             n \in Strs \cup {<<97>>}, v \in Strs \cup {<<97>>}}
    \cup {[msg |-> "ParameterDescription", pg_types |-> ts] : ts \in SeqsUpTo(PgTypes, MaxFields)}

----------------------------------------------------------------------------
(* PgType::decode and the Value it returns                                 *)

ValueBool(b) == [v |-> "Bool", b |-> b]
ValueInt16(n) == [v |-> "Int16", n |-> n]
ValueInt32(n) == [v |-> "Int32", n |-> n]
\* an i64 is kept as its high word, an i32, and its low word, a u32
ValueInt64(hi, lo) == [v |-> "Int64", hi |-> hi, lo |-> lo]
ValueString(s) == [v |-> "String", s |-> s]

ValueOk(value) == [ok |-> TRUE, val |-> value]
NotEnoughBytes(required_bytes, pg_type) ==
    [ok |-> FALSE, err |-> "NotEnoughBytes", required_bytes |-> required_bytes,
     pg_type |-> pg_type]
CannotDecodeString == [ok |-> FALSE, err |-> "CannotDecodeString"]
CannotParseBool == [ok |-> FALSE, err |-> "CannotParseBool"]
CannotParseInt(pg_type) == [ok |-> FALSE, err |-> "CannotParseInt", pg_type |-> pg_type]

\* `x as i16` of an i32: its low 16 bits
AsI16(x) == LET u == x % 65536 IN IF u >= 32768 THEN u - 65536 ELSE u

\* the SmallInt arm of decode_binary reading a two-byte value
decode_binary_SmallInt_TwoBytes(raw) ==
    IF Len(raw) < 2 THEN NotEnoughBytes(2, "SmallInt")
    ELSE ValueOk(ValueInt16(I16FromBe(raw[1], raw[2])))

\* the SmallInt arm of decode_binary
decode_binary_SmallInt(raw) ==
    IF Len(raw) < 4 THEN NotEnoughBytes(4, "SmallInt")
    ELSE ValueOk(ValueInt16(AsI16(I32FromBe(raw[1], raw[2], raw[3], raw[4]))))

\* PgType::decode_binary
decode_binary(pg_type, raw) ==
    CASE pg_type = "Bool" ->
            IF raw = <<>> THEN NotEnoughBytes(1, pg_type) ELSE ValueOk(ValueBool(raw[1] # 0))
      [] pg_type \in {"Char", "VarChar"} ->
            IF IsUtf8(raw) THEN ValueOk(ValueString(raw)) ELSE CannotDecodeString
      [] pg_type = "SmallInt" -> decode_binary_SmallInt(raw)
      [] pg_type = "Integer" ->
            IF Len(raw) < 4 THEN NotEnoughBytes(4, pg_type)
            ELSE ValueOk(ValueInt32(I32FromBe(raw[1], raw[2], raw[3], raw[4])))
      [] pg_type = "BigInt" ->
            IF Len(raw) < 8 THEN NotEnoughBytes(8, pg_type)
            ELSE ValueOk(ValueInt64(I32FromBe(raw[1], raw[2], raw[3], raw[4]),
                                    [hi |-> raw[5] * 256 + raw[6], lo |-> raw[7] * 256 + raw[8]]))

\* char::is_whitespace on the one-byte characters
IsWhitespace(b) == b \in {9, 10, 11, 12, 13, 32}

\* str::trim
RECURSIVE trim_start(_)
trim_start(s) == IF s # <<>> /\ IsWhitespace(s[1]) THEN trim_start(advance(s, 1)) ELSE s
RECURSIVE trim_end(_)
trim_end(s) ==
    IF s # <<>> /\ IsWhitespace(s[Len(s)]) THEN trim_end(SubSeq(s, 1, Len(s) - 1)) ELSE s
trim(s) == trim_end(trim_start(s))

\* str::to_lowercase on the one-byte characters
to_lowercase(s) == [i \in 1..Len(s) |-> IF s[i] \in 65..90 THEN s[i] + 32 ELSE s[i]]

\* "t", "tr", "tru", "true", "y", "ye", "yes", "on", "1"
BOOL_TRUE ==
    {<<116>>, <<116, 114>>, <<116, 114, 117>>, <<116, 114, 117, 101>>, <<121>>, <<121, 101>>,
     <<121, 101, 115>>, <<111, 110>>, <<49>>}
\* "f", "fa", "fal", "fals", "false", "n", "no", "of", "off", "0"
BOOL_FALSE ==
    {<<102>>, <<102, 97>>, <<102, 97, 108>>, <<102, 97, 108, 115>>, <<102, 97, 108, 115, 101>>,
     <<110>>, <<110, 111>>, <<111, 102>>, <<111, 102, 102>>, <<48>>}

\* the digits of a decimal number accumulated in four 16-bit limbs, the most
\* significant first; `over` once the number does not fit 64 bits
RECURSIVE ParseDigits(_, _)
ParseDigits(s, acc) ==
    IF s = <<>> THEN acc
    ELSE IF s[1] \notin 48..57 THEN [acc EXCEPT !.bad = TRUE]
    ELSE LET c0 == acc.m[4] * 10 + (s[1] - 48)
             c1 == acc.m[3] * 10 + c0 \div 65536
             c2 == acc.m[2] * 10 + c1 \div 65536
             c3 == acc.m[1] * 10 + c2 \div 65536
         IN  ParseDigits(advance(s, 1),
                         [acc EXCEPT !.m = <<c3 % 65536, c2 % 65536, c1 % 65536, c0 % 65536>>,
                                     !.over = acc.over \/ c3 >= 65536])

\* the two's complement of a 64-bit magnitude, as limbs
NegateLimbs(m) ==
    LET n0 == (65535 - m[4]) + 1
        n1 == (65535 - m[3]) + n0 \div 65536
        n2 == (65535 - m[2]) + n1 \div 65536
        n3 == (65535 - m[1]) + n2 \div 65536
    IN  <<n3 % 65536, n2 % 65536, n1 % 65536, n0 % 65536>>

\* <iN as FromStr>::from_str for N = bits: an optional sign, then digits
ParseInt(s, bits) ==
    LET neg == s # <<>> /\ s[1] = 45
        signed == s # <<>> /\ s[1] \in {43, 45}
        digits == IF signed THEN advance(s, 1) ELSE s
        p == ParseDigits(digits, [m |-> <<0, 0, 0, 0>>, over |-> FALSE, bad |-> FALSE])
        m == p.m
        least == neg /\ m[2] = 0 /\ m[3] = 0 /\ m[4] = 0
        fits == CASE bits = 16 -> m[1] = 0 /\ m[2] = 0 /\ m[3] = 0
                                  /\ (m[4] < 32768 \/ (neg /\ m[4] = 32768))
                  [] bits = 32 -> m[1] = 0 /\ m[2] = 0
                                  /\ (m[3] < 32768 \/ (neg /\ m[3] = 32768 /\ m[4] = 0))
                  [] bits = 64 -> m[1] < 32768 \/ (least /\ m[1] = 32768)
        two == IF neg THEN NegateLimbs(m) ELSE m
    IN  IF digits = <<>> \/ p.bad \/ p.over \/ ~fits THEN [ok |-> FALSE]
        ELSE IF bits = 64
             THEN [ok |-> TRUE, hi |-> I16FromBe(two[1] \div 256, two[1] % 256) * 65536 + two[2],
                   lo |-> [hi |-> two[3], lo |-> two[4]]]
        ELSE IF m[3] = 32768 THEN [ok |-> TRUE, val |-> I32_MIN]
        ELSE [ok |-> TRUE, val |-> IF neg THEN -(m[3] * 65536 + m[4]) ELSE m[3] * 65536 + m[4]]

\* PgType::decode_text
decode_text(pg_type, raw) ==
    IF ~IsUtf8(raw) THEN CannotDecodeString
    ELSE CASE pg_type = "Bool" ->
                LET v == to_lowercase(trim(raw))
                IN  IF v \in BOOL_TRUE THEN ValueOk(ValueBool(TRUE))
                    ELSE IF v \in BOOL_FALSE THEN ValueOk(ValueBool(FALSE))
                    ELSE CannotParseBool
           [] pg_type \in {"Char", "VarChar"} -> ValueOk(ValueString(raw))
           [] pg_type = "SmallInt" ->
                LET n == ParseInt(trim(raw), 16)
                IN  IF n.ok THEN ValueOk(ValueInt16(n.val)) ELSE CannotParseInt(pg_type)
           [] pg_type = "Integer" ->
                LET n == ParseInt(trim(raw), 32)
                IN  IF n.ok THEN ValueOk(ValueInt32(n.val)) ELSE CannotParseInt(pg_type)
           [] pg_type = "BigInt" ->
                LET n == ParseInt(trim(raw), 64)
                IN  IF n.ok THEN ValueOk(ValueInt64(n.hi, n.lo)) ELSE CannotParseInt(pg_type)

\* PgType::decode
decode(pg_type, format, raw) ==
    IF format = "Binary" THEN decode_binary(pg_type, raw) ELSE decode_text(pg_type, raw)

PgFormats == {"Text", "Binary"}

\* raw values a client sends: texts of booleans and numbers around the limits of
\* each width, and binary values of every length up to nine bytes
CodecRaws ==
    {<<>>, <<116>>, <<116, 114, 117, 101>>, <<32, 84, 82, 85, 69, 32>>, <<121>>, <<102>>,
     <<111, 102, 102>>, <<120>>, <<49>>, <<48>>, <<45, 49>>, <<43, 49>>, <<32, 49, 50, 10>>,
     <<45>>, <<49, 97>>, <<51, 50, 55, 54, 55>>, <<51, 50, 55, 54, 56>>,
     <<45, 51, 50, 55, 54, 56>>, <<45, 51, 50, 55, 54, 57>>,
     <<50, 49, 52, 55, 52, 56, 51, 54, 52, 55>>, <<50, 49, 52, 55, 52, 56, 51, 54, 52, 56>>,
     <<45, 50, 49, 52, 55, 52, 56, 51, 54, 52, 56>>,
     <<57, 50, 50, 51, 51, 55, 50, 48, 51, 54, 56, 53, 52, 55, 55, 53, 56, 48, 55>>,
     <<57, 50, 50, 51, 51, 55, 50, 48, 51, 54, 56, 53, 52, 55, 55, 53, 56, 48, 56>>,
     <<45, 57, 50, 50, 51, 51, 55, 50, 48, 51, 54, 56, 53, 52, 55, 55, 53, 56, 48, 56>>,
     <<49, 56, 52, 52, 54, 55, 52, 52, 48, 55, 51, 55, 48, 57, 53, 53, 49, 54, 49, 54>>,
     <<195, 169>>, <<0>>, <<2>>, <<255>>, <<0, 0, 1>>, <<0, 0, 0, 1>>, <<0, 1, 0, 1>>,
     <<0, 0, 128, 0>>, <<255, 255, 255, 255>>, <<128, 0, 0, 0>>, <<0, 0, 0, 1, 9>>,
     <<0, 0, 0, 0, 0, 0, 1>>, <<0, 0, 0, 0, 0, 0, 0, 1>>,
     <<255, 255, 255, 255, 255, 255, 255, 255>>, <<128, 0, 0, 0, 0, 0, 0, 0>>,
     <<0, 0, 0, 1, 0, 0, 0, 0, 7>>}

----------------------------------------------------------------------------
(* ResponseSender: send() and flush() from several threads                  *)

\* threads that hold a clone of one session's Arc<ResponseSender>
SndThreads == {1, 2}
\* calls of send() and flush() made on the ResponseSender
MaxSends == 3

\* messages a server sends; their encodings differ from the first byte on
SndMsgs == {[msg |-> "NoData"], [msg |-> "ReadyForQuery"]}

\* the Result<BackendMessage, BackendMessage> handed to send(), and a flush()
SndCalls ==
    {[op |-> "send", ok |-> TRUE, val |-> m] : m \in SndMsgs}
    \cup {[op |-> "send", ok |-> FALSE, err |-> m] : m \in SndMsgs}
    \cup {[op |-> "flush"]}

\* `match query_result { Ok(event) => event, Err(error) => error }`
SndMessage(query_result) == IF query_result.ok THEN query_result.val ELSE query_result.err

\* the bytes a call hands to write_all
SndBytes(call) == IF call.op = "send" THEN as_vec(SndMessage(call)) ELSE <<>>

\* channel.lock() that does not wait for the holder
SndAvailable_NoLock(t) == TRUE

\* channel.lock().await completes when nobody holds the AsyncMutex
SndAvailable(t) == sndLock = 0

\* the holder of the AsyncMutex when it is the session's receive()
RcvThread == 3
\* what the MessageDecoder of a receive() asks for when the client sends a Sync:
\* Requesting(1), Requesting(4), Requesting(0)
RcvRequests == <<1, 4, 0>>
\* that message
RcvMessage == <<SYNC, 0, 0, 0, 4>>

\* no receive() has been called, the client has sent nothing
RcvIdle == [pc |-> "idle", stage |-> 0, got |-> 0, avail |-> 0, sent |-> 0, closed |-> FALSE]

SndInit ==
    /\ rcv = RcvIdle
    /\ sndChannel = <<>>
    /\ sndLock = 0
    /\ sndPc = [t \in SndThreads |-> "idle"]
    /\ sndArg = [t \in SndThreads |-> [op |-> "none"]]
    /\ sndPos = [t \in SndThreads |-> 0]
    /\ sndOrder = <<>>
    /\ sndBroken = FALSE
    /\ sndCalls = 0

RcvFrame ==
    UNCHANGED <<hsState, hsPrev, hsIn, hsRes, hsCalls, hsSsl, hsEnded, fnVars, decVars, supVars,
                accVars>>

SndFrame == RcvFrame /\ UNCHANGED rcv

\* a thread calls send() or flush()
SndStart(t, call) ==
    /\ sndPc[t] = "idle"
    /\ sndCalls < MaxSends
    /\ sndCalls' = sndCalls + 1
    /\ sndArg' = [sndArg EXCEPT ![t] = call]
    /\ sndPc' = [sndPc EXCEPT ![t] = "lock"]
    /\ UNCHANGED <<sndChannel, sndLock, sndPos, sndOrder, sndBroken>>
    /\ SndFrame

\* self.channel.lock().await
SndLock(t) ==
    /\ sndPc[t] = "lock"
    /\ SndAvailable(t)
    /\ sndLock' = t
    /\ sndOrder' = Append(sndOrder, sndArg[t])
    /\ sndPos' = [sndPos EXCEPT ![t] = 0]
    /\ sndPc' = [sndPc EXCEPT ![t] = "write"]
    /\ UNCHANGED <<sndChannel, sndArg, sndBroken, sndCalls>>
    /\ SndFrame

\* one poll_write of write_all takes the next n bytes; after the last one the
\* guard is dropped and the call returns Ok(())
SndWrite(t, n) ==
    /\ sndPc[t] = "write"
    /\ ~sndBroken
    /\ n \in 1..(Len(SndBytes(sndArg[t])) - sndPos[t])
    /\ sndChannel' = sndChannel \o SubSeq(SndBytes(sndArg[t]), sndPos[t] + 1, sndPos[t] + n)
    /\ sndPos' = [sndPos EXCEPT ![t] = sndPos[t] + n]
    /\ IF sndPos[t] + n = Len(SndBytes(sndArg[t]))
       THEN /\ sndPc' = [sndPc EXCEPT ![t] = "idle"]
            /\ sndLock' = IF sndLock = t THEN 0 ELSE sndLock
       ELSE UNCHANGED <<sndPc, sndLock>>
    /\ UNCHANGED <<sndArg, sndOrder, sndBroken, sndCalls>>
    /\ SndFrame

\* flush().await under the guard, then Ok(())
SndFlush(t) ==
    /\ sndPc[t] = "write"
    /\ ~sndBroken
    /\ sndArg[t].op = "flush"
    /\ sndPc' = [sndPc EXCEPT ![t] = "idle"]
    /\ sndLock' = IF sndLock = t THEN 0 ELSE sndLock
    /\ UNCHANGED <<sndChannel, sndArg, sndPos, sndOrder, sndBroken, sndCalls>>
    /\ SndFrame

\* the channel fails the write or the flush, now and from now on: expect("OK")
\* panics, and unwinding drops the guard
SndFail(t) ==
    /\ sndPc[t] = "write"
    /\ sndBroken' = TRUE
    /\ sndPc' = [sndPc EXCEPT ![t] = "panicked"]
    /\ sndLock' = IF sndLock = t THEN 0 ELSE sndLock
    /\ UNCHANGED <<sndChannel, sndArg, sndPos, sndOrder, sndCalls>>
    /\ SndFrame

SenderNext ==
    \/ \E t \in SndThreads : \E call \in SndCalls : SndStart(t, call)
    \/ \E t \in SndThreads : SndLock(t)
    \/ \E t \in SndThreads : \E n \in 1..Len(SndBytes(sndArg[t])) : SndWrite(t, n)
    \/ \E t \in SndThreads : SndFlush(t)
    \/ \E t \in SndThreads : SndFail(t)

----------------------------------------------------------------------------
(* Connection::read_frontend_message beside the session's ResponseSender:   *)
(* `self.channel.lock().await.read_exact(&mut buffer).await?` is one        *)
(* statement, the MutexGuard lives until its end                            *)

RcvSenderFrame ==
    UNCHANGED <<sndChannel, sndPc, sndArg, sndPos, sndOrder, sndBroken, sndCalls>>

\* connection.receive() is called: the decoder's first request
RcvStart ==
    /\ rcv.pc = "idle"
    /\ rcv' = [rcv EXCEPT !.pc = "lock", !.stage = 1, !.got = 0]
    /\ UNCHANGED sndLock
    /\ RcvSenderFrame /\ RcvFrame

\* self.channel.lock().await
RcvLock ==
    /\ rcv.pc = "lock"
    /\ sndLock = 0
    /\ sndLock' = RcvThread
    /\ rcv' = [rcv EXCEPT !.pc = "read", !.got = 0]
    /\ RcvSenderFrame /\ RcvFrame

\* the end of the statement: the guard is dropped, then the decoder is given
\* the buffer and asks for the next one or returns the message
RcvUnlocked ==
    IF rcv.stage = Len(RcvRequests)
    THEN [rcv EXCEPT !.pc = "done", !.got = 0]
    ELSE [rcv EXCEPT !.pc = "lock", !.stage = rcv.stage + 1, !.got = 0]

\* .read_exact(&mut buffer).await under the guard: it takes the bytes that
\* are there, is suspended while there are none and the client has not gone,
\* and fails with UnexpectedEof once the client has gone
RcvRead ==
    LET need == RcvRequests[rcv.stage] - rcv.got
        k == IF rcv.avail < need THEN rcv.avail ELSE need
    IN  /\ rcv.pc = "read"
        /\ need = 0 \/ rcv.avail > 0 \/ rcv.closed
        /\ IF k = need
           THEN /\ rcv' = [RcvUnlocked EXCEPT !.avail = rcv.avail - k]
                /\ sndLock' = 0
           ELSE IF rcv.avail = 0
           THEN /\ rcv' = [rcv EXCEPT !.pc = "done"]
                /\ sndLock' = 0
           ELSE /\ rcv' = [rcv EXCEPT !.got = rcv.got + k, !.avail = rcv.avail - k]
                /\ UNCHANGED sndLock
        /\ RcvSenderFrame /\ RcvFrame

\* the client transmits its next byte
ClientSends ==
    /\ ~rcv.closed
    /\ rcv.sent < Len(RcvMessage)
    /\ rcv' = [rcv EXCEPT !.avail = rcv.avail + 1, !.sent = rcv.sent + 1]
    /\ UNCHANGED sndLock
    /\ RcvSenderFrame /\ RcvFrame

\* the client closes its socket
ClientCloses ==
    /\ ~rcv.closed
    /\ rcv' = [rcv EXCEPT !.closed = TRUE]
    /\ UNCHANGED sndLock
    /\ RcvSenderFrame /\ RcvFrame

\* the thread that answers the client while receive() waits for its next message
SessionThreads == {1}

SessionNext ==
    \/ \E t \in SessionThreads : \E call \in SndCalls : SndStart(t, call)
    \/ \E t \in SessionThreads : SndLock(t)
    \/ \E t \in SessionThreads : \E n \in 1..Len(SndBytes(sndArg[t])) : SndWrite(t, n)
    \/ \E t \in SessionThreads : SndFlush(t)
    \/ \E t \in SessionThreads : SndFail(t)
    \/ RcvStart
    \/ RcvLock
    \/ RcvRead
    \/ ClientSends
    \/ ClientCloses

----------------------------------------------------------------------------
(* The pure functions of the crate, called on their own                     *)

\* OIDs a Parse message carries: the known ones, 0, and unknown ones
CodecOids ==
    {U32(oid) : oid \in {0, 16, 18, 20, 21, 23, 1043, 17, 1000000}} \cup {[hi |-> 1, lo |-> 16]}

\* the body of a Parse message with these parameter OIDs
ParseWire(oids) ==
    cstr(<<>>) \o cstr(<<97>>) \o I16ToBe(Len(oids))
    \o Concat([i \in 1..Len(oids) |-> U32ToBe(oids[i])])

\* format codes and parameters as a client puts them in a Bind message: a NULL,
\* an empty value, a value, a value cut short by the end of the message, and a
\* length below -1
BindCodes == {0, 1, 2, -1}
BindParams ==
    {[len |-> -1, bytes |-> <<>>], [len |-> 0, bytes |-> <<>>], [len |-> 2, bytes |-> <<7, 0>>],
     [len |-> 3, bytes |-> <<7>>], [len |-> -2, bytes |-> <<>>]}
BindCut(p) == p.len > Len(p.bytes)
BindWires ==
    {[pf |-> pf, pv |-> pv, rf |-> rf] :
        pf \in SeqsUpTo(BindCodes, MaxFields - 1),
        pv \in {s \in SeqsUpTo(BindParams, MaxFields) :
                    \A i \in 1..Len(s) : BindCut(s[i]) => i = Len(s)},
        rf \in SeqsUpTo({0, 2}, MaxFields - 1)}

\* the body of a Bind message; nothing follows a value that is cut short
BindWire(w) ==
    cstr(<<97>>) \o cstr(<<>>)
    \o I16ToBe(Len(w.pf)) \o Concat([i \in 1..Len(w.pf) |-> I16ToBe(w.pf[i])])
    \o I16ToBe(Len(w.pv)) \o Concat([i \in 1..Len(w.pv) |-> I32ToBe(w.pv[i].len) \o w.pv[i].bytes])
    \o (IF \E i \in 1..Len(w.pv) : BindCut(w.pv[i]) THEN <<>>
        ELSE I16ToBe(Len(w.rf)) \o Concat([i \in 1..Len(w.rf) |-> I16ToBe(w.rf[i])]))

FnNoCall == [op |-> "none"]

FnIdle ==
    /\ fnCall = FnNoCall
    /\ fnRes = FnNoCall

\* one call, made once
FnApply(call, res) ==
    /\ fnCall = FnNoCall
    /\ fnCall' = call
    /\ fnRes' = res
    /\ UNCHANGED <<hsState, hsPrev, hsIn, hsRes, hsCalls, hsSsl, hsEnded, sndVars, decVars, supVars,
                   accVars, rb>>

CallAsVec == \E m \in BackendMsgs : FnApply([op |-> "as_vec", message |-> m], as_vec(m))

CallTypeLen == \E t \in PgTypes : FnApply([op |-> "type_len", pg_type |-> t], type_len(t))

CallFromOid == \E oid \in CodecOids : FnApply([op |-> "from_oid", oid |-> oid], from_oid(oid))

CallDecode ==
    \E t \in PgTypes : \E f \in PgFormats : \E raw \in CodecRaws :
        FnApply([op |-> "decode", pg_type |-> t, format |-> f, raw |-> raw], decode(t, f, raw))

CallDecodeParse ==
    \E oids \in SeqsUpTo(CodecOids, MaxFields) :
        FnApply([op |-> "decode_parse", oids |-> oids], Decode(PARSE, ParseWire(oids)))

CallDecodeBind ==
    \E w \in BindWires : FnApply([op |-> "decode_bind", wire |-> w], Decode(BIND, BindWire(w)))

CodecNext ==
    \/ CallAsVec
    \/ CallTypeLen
    \/ CallFromOid
    \/ CallDecode
    \/ CallDecodeParse
    \/ CallDecodeBind

----------------------------------------------------------------------------
(* ringbuf: the single-producer single-consumer ring buffer               *)

MaxCapacity == 3    \* the largest capacity a RingBuffer is created with
MaxRbOps == 6       \* pushes and pops made on one RingBuffer

\* the bytes the tests push: 12 and 34
RbValues == {12, 34}

\* RingBuffer::new: capacity + 1 zeroed slots, head and tail at 0.  A Vec holds
\* at most isize::MAX bytes, so that capacity + 1 and the sums of len() and
\* is_full() stay below usize::MAX for every buffer that exists.
RingBuffer_new(c) == [data |-> [i \in 1..(c + 1) |-> 0], head |-> 0, tail |-> 0]

capacity(b) == Len(b.data) - 1

\* the mutant: the successor of tail without the wrap
is_full_NoWrap(b) == b.tail + 1 = b.head

is_full(b) == (b.tail + 1) % (capacity(b) + 1) = b.head

is_empty(b) == b.head = b.tail

len(b) == (b.tail + capacity(b) + 1 - b.head) % (capacity(b) + 1)

\* capacity() - len() on usize
remaining(b) == AsUsize(capacity(b) - len(b))

\* the occupied slots from head up to tail, oldest first: the left slice of
\* pop_access followed by its right slice
RbContent(b) == [i \in 1..len(b) |-> b.data[((b.head + i - 1) % (capacity(b) + 1)) + 1]]

RbNew(c) ==
    [buf |-> RingBuffer_new(c), pushed |-> <<>>, popped |-> <<>>,
     last |-> [op |-> "new"], ops |-> 0]

\* Producer::push: Err(elem) on a full buffer, else the element goes to the
\* slot at tail and tail moves to its successor
RbPush(elem) ==
    /\ rb.ops < MaxRbOps
    /\ \E full \in {is_full(rb.buf)} :
        rb' = [buf |-> IF full THEN rb.buf
                       ELSE [rb.buf EXCEPT !.data[rb.buf.tail + 1] = elem,
                                           !.tail = (rb.buf.tail + 1) % (capacity(rb.buf) + 1)],
               pushed |-> IF full THEN rb.pushed ELSE Append(rb.pushed, elem),
               popped |-> rb.popped,
               last |-> [op |-> "push", elem |-> elem, before |-> rb.buf,
                         res |-> [ok |-> ~full, err |-> elem]],
               ops |-> rb.ops + 1]
    /\ UNCHANGED <<hsState, hsPrev, hsIn, hsRes, hsCalls, hsSsl, hsEnded, fnCall, fnRes, sndVars,
                   decVars, supVars, accVars>>

\* Consumer::pop: None on an empty buffer, else the element of the slot at
\* head, and head moves to its successor
RbPop ==
    /\ rb.ops < MaxRbOps
    /\ \E empty \in {is_empty(rb.buf)} :
        rb' = [buf |-> IF empty THEN rb.buf
                       ELSE [rb.buf EXCEPT !.head = (rb.buf.head + 1) % (capacity(rb.buf) + 1)],
               pushed |-> rb.pushed,
               popped |-> IF empty THEN rb.popped
                          ELSE Append(rb.popped, rb.buf.data[rb.buf.head + 1]),
               last |-> [op |-> "pop", before |-> rb.buf,
                         res |-> IF empty THEN [some |-> FALSE, val |-> 0]
                                 ELSE [some |-> TRUE, val |-> rb.buf.data[rb.buf.head + 1]]],
               ops |-> rb.ops + 1]
    /\ UNCHANGED <<hsState, hsPrev, hsIn, hsRes, hsCalls, hsSsl, hsEnded, fnCall, fnRes, sndVars,
                   decVars, supVars, accVars>>

RingBufferNext ==
    \/ \E elem \in RbValues : RbPush(elem)
    \/ RbPop

----------------------------------------------------------------------------
(* Specifications                                                          *)

\* no ring buffer in use: one of capacity 0, never pushed to
FnInit == FnIdle /\ rb = RbNew(0)

\* one handshake Process, any payload at any call
HandShakeInit == HsInit /\ DecInit /\ SupStart(1, 2) /\ AccStart(FALSE) /\ ConnIdle /\ FnInit /\ SndInit
HandShakeNext == HsNext
SpecHandShake == HandShakeInit /\ [][HandShakeNext]_vars

\* one MessageDecoder, any payload at any call
DecoderInit == HsInit /\ DecInit /\ SupStart(1, 2) /\ AccStart(FALSE) /\ ConnIdle /\ FnInit /\ SndInit
SpecDecoder == DecoderInit /\ [][DecoderNext]_vars

\* one MessageDecoder fed a byte stream cut into chunks
SplitInit == HsInit /\ DecInit /\ SupStart(1, 2) /\ AccStart(FALSE) /\ ConnIdle /\ FnInit /\ SndInit
SpecDecoderSplit == SplitInit /\ [][SplitNext]_vars

\* one ConnSupervisor, any call at any time
SupervisorInit == HsInit /\ DecInit /\ SupInit /\ AccStart(FALSE) /\ ConnIdle /\ FnInit /\ SndInit
SpecSupervisor == SupervisorInit /\ [][SupervisorNext]_vars

ConcurrentInit == HsInit /\ DecInit /\ SupInit /\ AccStart(FALSE) /\ ConnIdle /\ FnInit /\ SndInit
SpecConcurrent == ConcurrentInit /\ [][ConcurrentNext]_vars

ConnectionInit == HsInit /\ DecInit /\ SupStart(1, 2) /\ AccStart(FALSE) /\ ConnInit /\ FnInit /\ SndInit
SpecConnection == ConnectionInit /\ [][ConnectionNext]_vars

\* the pure functions, each called on any input
CodecInit == HsInit /\ DecInit /\ SupStart(1, 2) /\ AccStart(FALSE) /\ ConnIdle /\ FnInit /\ SndInit
SpecCodec == CodecInit /\ [][CodecNext]_vars

\* one session's ResponseSender shared by two threads
SenderInit == HsInit /\ DecInit /\ SupStart(1, 2) /\ AccStart(FALSE) /\ ConnIdle /\ FnInit /\ SndInit
SpecSender == SenderInit /\ [][SenderNext]_vars

\* a session: its receive() and the threads that send on its ResponseSender
SessionInit == HsInit /\ DecInit /\ SupStart(1, 2) /\ AccStart(FALSE) /\ ConnIdle /\ FnInit /\ SndInit
SpecSession == SessionInit /\ [][SessionNext]_vars

\* one listener accepting clients one after the other
RingBufferInit ==
    /\ HsInit /\ DecInit /\ SupStart(1, 2) /\ AccStart(FALSE) /\ ConnIdle /\ FnIdle /\ SndInit
    /\ \E c \in 0..MaxCapacity : rb = RbNew(c)
SpecRingBuffer == RingBufferInit /\ [][RingBufferNext]_vars

AcceptInit == HsInit /\ DecInit /\ SupInit /\ AccInit /\ ConnIdle /\ FnInit /\ SndInit
SpecAccept == AcceptInit /\ [][AcceptNext]_vars

\* the same, where a pass of the loop that can be made is made: the client
\* sends the bytes a read waits for, or the read fails
FairAccept == AcceptInit /\ [][AcceptNext]_vars /\ WF_vars(AccLoop)

----------------------------------------------------------------------------
(* Claims about the handshake Process                                      *)

\* the last call was fed exactly 4 bytes holding a length L >= 4
FedLength == hsIn.some /\ Len(hsIn.bytes) = 4 /\ read_i32(hsIn.bytes).val >= 4
\* the last call was fed a body that starts with a request code
FedCode == hsIn.some /\ Len(hsIn.bytes) >= 4
\* parameter lists a client can send: every name is nonempty
GoodProps == {p \in PropLists : \A i \in 1..Len(p) : p[i][1] # <<>>}
FedStartup(p) == hsIn.some /\ hsIn.bytes = StartupBody(p)

\* C1: on a fresh Process next_stage(None) returns RequestingBytes(4); fed the
\* 4-byte length L of a message it returns RequestingBytes(L - 4); fed a
\* VERSION_3 body of name/value pairs with the empty-key terminator it returns
\* Done with exactly those pairs.
C1_HappyPath ==
    /\ (hsCalls = 1 /\ ~hsIn.some) =>
            hsRes = RequestingBytes(AsUsize(4)) /\ hsState = "MessageLen"
    /\ (hsPrev = "MessageLen" /\ FedLength) =>
            /\ hsRes = [kind |-> "RequestingBytes", n |-> read_i32(hsIn.bytes).val - 4,
                        huge |-> FALSE]
            /\ hsState = "ParseSetup"
    /\ \A p \in GoodProps : (hsPrev = "ParseSetup" /\ FedStartup(p)) => hsRes = HsDone(p)

C1_Witness ==
    /\ hsCalls = 3 /\ hsSsl = 0 /\ hsPrev = "ParseSetup"
    /\ hsRes.kind = "Done" /\ Len(hsRes.props) = 2
    /\ hsRes.props[1] # hsRes.props[2]

\* C4: in ParseSetup a body with code VERSION_1 or VERSION_2 gives the error
\* UnsupportedProtocolVersion(code), and a body with a code that is none of
\* VERSION_1, VERSION_2, VERSION_3, CANCEL, SSL gives UnsupportedClientRequest(code).
C4_RejectedCodes ==
    (hsPrev = "ParseSetup" /\ FedCode) =>
        LET code == read_i32(hsIn.bytes).val
        IN  /\ code \in {VERSION_1_CODE, VERSION_2_CODE} =>
                    hsRes = HsErr("UnsupportedProtocolVersion", code)
            /\ code \notin {VERSION_1_CODE, VERSION_2_CODE, VERSION_3_CODE,
                             CANCEL_REQUEST_CODE, SSL_REQUEST_CODE} =>
                    hsRes = HsErr("UnsupportedClientRequest", code)

C4_Witness ==
    /\ hsPrev = "ParseSetup" /\ FedCode
    /\ read_i32(hsIn.bytes).val = GSSENC_REQUEST_CODE
    /\ hsRes.kind = "Err" /\ hsRes.err = "UnsupportedClientRequest"

C6_DoneParams ==
    hsRes.kind = "Done" =>
        LET sent == advance(hsIn.bytes, 4)
            kept == EncodeProps(hsRes.props) \o <<0>>
        IN  /\ \A i \in 1..Len(hsRes.props) : hsRes.props[i][1] # <<>>
            /\ Len(kept) <= Len(sent)
            /\ SubSeq(sent, 1, Len(kept)) = kept

\* a Done whose body went on after the first empty key
C6_Witness ==
    /\ hsRes.kind = "Done" /\ Len(hsRes.props) = 1
    /\ Len(hsIn.bytes) > 4 + Len(EncodeProps(hsRes.props)) + 1

----------------------------------------------------------------------------
(* Claims about the message decoder                                        *)

DecCalled == decRes.kind # "Start"
DecFedBytes == IF decIn.some THEN decIn.bytes ELSE <<>>

\* C7: the decoder cycles: from its initial state any call returns
\* Requesting(1); a 1-byte tag returns Requesting(4); a 4-byte length L returns
\* Requesting(L - 4); the payload of a message returns Done(message); and
\* every Done leaves the decoder in its initial state, message after message.
C7_DecoderCycle ==
    /\ (DecCalled /\ decPrev.name = "None") =>
            decRes = Requesting(AsUsize(1)) /\ decState = DecRequestingTag
    /\ (decPrev.name = "RequestingTag" /\ Len(DecFedBytes) = 1) =>
            decRes = Requesting(AsUsize(4)) /\ decState = DecTagState(decIn.bytes[1])
    /\ (decPrev.name = "Tag" /\ Len(DecFedBytes) = 4 /\ read_i32(DecFedBytes).val >= 4) =>
            /\ decRes = [kind |-> "Requesting", n |-> read_i32(DecFedBytes).val - 4,
                         huge |-> FALSE]
            /\ decState = DecWaitingForPayload
            /\ decTag = decPrev.tag
    /\ \A m \in SampleMsgs :
            (/\ decPrev.name = "WaitingForPayload"
             /\ decTag = FrontendTag(m)
             /\ DecFedBytes = FrontendBody(m)) => decRes = DecDone(m)
    /\ decRes.kind = "Done" => decState = DecNone

\* a second message in a row, of another kind than a Query
C7_Witness ==
    /\ decMsgs = 2 /\ decRes.kind = "Done" /\ decRes.msg.msg = "Bind"
    /\ decPrev.name = "WaitingForPayload"

\* C8: in RequestingTag a call with empty or no input returns the error
\* MissingMessageTag, neither a byte request nor a Done.
C8_MissingMessageTag ==
    (decPrev.name = "RequestingTag" /\ DecFedBytes = <<>>) =>
        decRes = DecError("MissingMessageTag")

C8_Witness ==
    /\ decPrev.name = "RequestingTag" /\ ~decIn.some
    /\ decRes.kind = "Err"

\* the stream of one whole message: a tag, a length L >= 4, L - 4 payload bytes
WholeMessage(fed) ==
    /\ Len(fed) >= 5
    /\ read_i32(advance(fed, 1)).val >= 4
    /\ Len(fed) = 1 + read_i32(advance(fed, 1)).val
\* what the decoder returns for it when it is cut as the decoder requests
RequestedCut(fed) == DecStagePayload(fed[1], advance(fed, 5)).res

----------------------------------------------------------------------------
(* Claims about the handshake as accept runs it                            *)

\* C2: every run of accept's handshake loop terminates: next_stage returns
\* Done or Cancel, or the run ends in an error. A run that a panic ends is
\* counted as terminated here, so that only a run that never ends refutes this.
C2_RunTerminates == (accOut.kind = "Running") ~> (accOut.kind # "Running")

\* C3: only the first SSL request of a run is answered with the upgrade
\* status; a second one, on a plain or on an upgraded channel, is not.
C3_SingleSslUpgrade ==
    accStatus.kind = "UpdatingToSecureWithReadingBytes" => accSsl <= 1

----------------------------------------------------------------------------
(* Claims about the connection supervisor                                  *)

\* C10: alloc returns the front of a nonempty free list and removes it; with
\* an empty free list it returns next_id and leaves next_id one higher, or
\* fails, changing nothing, exactly when next_id is above max_id; and the id
\* of a successful alloc is in the live map with the key returned.
C10_AllocPolicy ==
    supLast.call.op = "alloc" =>
        LET before == supLast.before
            res == supLast.res
        IN  /\ IF before.free_ids # <<>>
               THEN /\ res.kind = "Ok"
                    /\ res.conn_id = before.free_ids[1]
                    /\ free_ids = advance(before.free_ids, 1)
                    /\ next_id = before.next_id
               ELSE IF before.next_id > before.max_id
               THEN res.kind = "Err" /\ SupFields = before
               ELSE /\ res.kind = "Ok"
                    /\ res.conn_id = before.next_id
                    /\ free_ids = <<>>
                    /\ next_id > before.next_id
                    /\ next_id - before.next_id = 1
            /\ res.kind = "Ok" =>
                    current_mapping = MapInsert(before.current_mapping, res.conn_id,
                                                res.secret_key)

\* C11: once free(id) has returned, verify(id, k) returns false for every key k
\* until an alloc returns that id again.
C11_FreedNeverVerifies ==
    (supLast.call.op = "verify" /\ supLast.call.conn_id \in supLast.freed)
        => supLast.res = [kind |-> "Bool", val |-> FALSE]

\* verify was asked about an id that alloc had returned and free had taken back
C11_Witness ==
    /\ supLast.call.op = "verify"
    /\ supLast.call.conn_id \in supLast.freed
    /\ \E i \in DOMAIN free_ids : free_ids[i] = supLast.call.conn_id
    /\ supLast.res.kind = "Bool"

\* C12: the live map holds exactly the ids alloc returned and free was not called
\* on since, each with the key alloc returned with it; free(id) takes the id and
\* its key out together.
C12_LiveIdsHaveTheirKey ==
    /\ current_mapping = supIssued
    /\ (supLast.call.op = "free" /\ supLast.res.kind = "Unit")
           => /\ supLast.call.conn_id \notin DOMAIN current_mapping
              /\ current_mapping = MapRemove(supLast.before.current_mapping,
                                             supLast.call.conn_id)

\* a live id was freed while another id stayed live
C12_Witness ==
    /\ supLast.call.op = "free"
    /\ supLast.res.kind = "Unit"
    /\ supLast.call.conn_id \in DOMAIN supLast.before.current_mapping
    /\ current_mapping # <<>>

C14_CallsAreAtomic ==
    LET c == supLast.call
        b == supLast.before
        r == supLast.res
        now == [s |-> supLast.after, res |-> r]
    IN  /\ c.op = "alloc" =>
              \/ r = SupPanic /\ poisoned
              \/ \E k \in SupKeys : \E ovf \in {"panic", "wrap"} : alloc(b, k, ovf) = now
        /\ (c.op = "alloc" /\ r.kind = "Ok") => r.conn_id \notin DOMAIN supLast.issued
        /\ c.op = "free" =>
              \/ r = SupPanic /\ poisoned
              \/ r.kind = "Unit" /\ free(b, c.conn_id) = supLast.after
        /\ c.op = "verify" =>
              \/ r = SupPanic /\ poisoned
              \/ /\ r = [kind |-> "Bool", val |-> verify(b, c.conn_id, c.secret_key)]
                 /\ r.val = (/\ c.conn_id \in DOMAIN supLast.issued
                             /\ supLast.issued[c.conn_id] = c.secret_key)
                 /\ supLast.after = b

\* an alloc returned while the other thread's alloc was waiting for the lock
C14_Witness ==
    /\ supLast.call.op = "alloc"
    /\ supLast.res.kind = "Ok"
    /\ mutex = 0
    /\ \E u \in Threads : thPc[u] = "lock" /\ thCall[u].op = "alloc"

\* C15: a handshake that ends in Cancel(id, key) makes accept return
\* QueryCancellation(id) exactly when id is live in the supervisor with that key,
\* and the protocol error Ok(Err(())) in every other case.
C15_CancelIsVerified ==
    (accStatus.kind = "Cancel" /\ supLast.call.op = "verify") =>
        IF /\ accStatus.conn_id \in DOMAIN supLast.issued
           /\ supLast.issued[accStatus.conn_id] = accStatus.secret_key
        THEN accOut = ClientQueryCancellation(accStatus.conn_id)
        ELSE accOut = AccRejected

\* a cancel request for a connection made earlier, with its key
C15_Witness ==
    /\ accStatus.kind = "Cancel"
    /\ accOut.kind = "QueryCancellation"
    /\ supLast.call.op = "verify"

\* C16: on an SSL request accept writes one reply byte before it reads the next
\* length: 'S', with tls_accept and the encrypted stream in place of the plain
\* one, when TLS is configured; 'N', the connection staying unencrypted, when it
\* is not.
C16_SslReply ==
    (accStatus.kind = "UpdatingToSecureWithReadingBytes" /\ accSent # <<>>)
        => IF ssl_conf
           THEN accSent = <<"S">> /\ (accOut.kind = "Running" => accChan = "Secure")
           ELSE accSent = <<"N">> /\ accChan = "Plain"

\* C17: in a Done handshake accept writes AuthenticationCleartextPassword, then,
\* the password message read, AuthenticationOk, ParameterStatus
\* client_encoding=UTF8, DateStyle=ISO, integer_datetimes=off,
\* server_version=12.4, BackendKeyData with the id and key alloc just returned,
\* and ReadyForQuery last; the Connection is returned only with all of them
\* written.
C17_DoneWritesInOrder ==
    accStatus.kind = "Done" =>
        LET n == Len(accSent)
            fixed == <<"AuthenticationCleartextPassword", "AuthenticationOk",
                       "ParameterStatus(client_encoding,UTF8)",
                       "ParameterStatus(DateStyle,ISO)",
                       "ParameterStatus(integer_datetimes,off)",
                       "ParameterStatus(server_version,12.4)", "BackendKeyData",
                       "ReadyForQuery">>
        IN  /\ n <= 8
            /\ \A i \in 1..n :
                  IF i = 7
                  THEN /\ accSent[i].msg = fixed[i]
                       /\ supLast.call.op = "alloc" =>
                             /\ supLast.res.kind = "Ok"
                             /\ accSent[i].conn_id = supLast.res.conn_id
                             /\ accSent[i].secret_key = supLast.res.secret_key
                  ELSE accSent[i] = fixed[i]
            /\ n >= 2 => accPwd
            /\ accOut.kind = "Connect" =>
                  /\ n = 8
                  /\ accOut.conn_id = accSent[7].conn_id
                  /\ accOut.secret_key = accSent[7].secret_key

\* a second client got its Connection, with the id and key of its own
C17_Witness ==
    /\ accStatus.kind = "Done"
    /\ accOut.kind = "Connect"
    /\ Len(accSent) = 8
    /\ accConns = 2
    /\ Cardinality(accSessions) = 2
    /\ supLast.call.op = "alloc"

\* C18: when alloc finds no id left, accept returns the protocol error
\* Ok(Err(())), no Connection is made, and neither BackendKeyData nor
\* ReadyForQuery is written.
C18_NoIdLeft ==
    (/\ accStatus.kind = "Done"
     /\ Len(accSent) >= 6
     /\ supLast.call.op = "alloc"
     /\ supLast.before.free_ids = <<>>
     /\ supLast.before.next_id > supLast.before.max_id)
        => /\ accOut = AccRejected
           /\ accSent = <<"AuthenticationCleartextPassword", "AuthenticationOk",
                          "ParameterStatus(client_encoding,UTF8)",
                          "ParameterStatus(DateStyle,ISO)",
                          "ParameterStatus(integer_datetimes,off)",
                          "ParameterStatus(server_version,12.4)">>

\* alloc had no id to give: the range is empty, or its ids are all live
C18_Witness ==
    /\ accStatus.kind = "Done"
    /\ Len(accSent) >= 6
    /\ supLast.call.op = "alloc"
    /\ supLast.res.kind = "Err"
    /\ accOut = AccRejected

\* C19: an id and its key exist in the supervisor only for a handshake that
\* succeeded and only while the Connection it returned is alive: the live ids
\* are the ids of the Connections not dropped yet (drop calls free(id), the id
\* stops verifying and is the next one alloc hands out).
C19_IdsBelongToSessions ==
    /\ DOMAIN current_mapping = accSessions
    /\ (supLast.call.op = "free" /\ supLast.call.conn_id \in DOMAIN supLast.issued)
          => /\ supLast.call.conn_id \notin DOMAIN current_mapping
             /\ free_ids[Len(free_ids)] = supLast.call.conn_id

\* C20: a receive() whose read ends in EOF in the middle of a frame returns
\* CommandMessage::Terminate once; the receive() calls after it return the I/O
\* error.
C20_TerminateOnce ==
    conLast.kind # "Start" =>
        /\ (conLast.eof /\ conLast.eofsBefore = 0)
              => conLast.res = ConnMessage([msg |-> "Terminate"])
        /\ conLast.eofsBefore > 0 => conLast.res = ConnIoError("UnexpectedEof")

----------------------------------------------------------------------------
(* Claims about the ResponseSender and the encoders and decoders           *)

\* the encodings of the first k calls that took the lock, one after the other
SndWhole(k) == Concat([i \in 1..k |-> SndBytes(sndOrder[i])])

C24_Framed ==
    fnCall.op = "as_vec" =>
        /\ Len(fnRes) >= 5
        /\ I32FromBe(fnRes[2], fnRes[3], fnRes[4], fnRes[5]) = Len(fnRes) - 1
        /\ I32FromBe(fnRes[2], fnRes[3], fnRes[4], fnRes[5]) >= 4

\* C25: from_oid gives back the type whose type_oid it is handed, None for 0 and
\* NotSupportedOid(oid) for every other OID; type_len is the table; a Parse
\* message that carries an unknown OID is not decoded.
C25_OidTable ==
    /\ fnCall.op = "type_len" =>
            fnRes = CASE fnCall.pg_type \in {"Bool", "Char"} -> 1
                      [] fnCall.pg_type = "BigInt" -> 8
                      [] fnCall.pg_type = "SmallInt" -> 2
                      [] fnCall.pg_type = "Integer" -> 4
                      [] fnCall.pg_type = "VarChar" -> -1
    /\ fnCall.op = "from_oid" =>
            IF \E t \in PgTypes : fnCall.oid = U32(type_oid(t))
            THEN \A t \in PgTypes : fnCall.oid = U32(type_oid(t)) => fnRes = [ok |-> TRUE, val |-> t]
            ELSE IF fnCall.oid = U32(0) THEN fnRes = [ok |-> TRUE, val |-> "None"]
            ELSE fnRes = [ok |-> FALSE, err |-> "NotSupportedOid", oid |-> fnCall.oid]
    /\ fnCall.op = "decode_parse" =>
            IF \E i \in 1..Len(fnCall.oids) :
                    fnCall.oids[i] \notin {U32(type_oid(t)) : t \in PgTypes \cup {"None"}}
            THEN ~fnRes.ok /\ fnRes.err = "NotSupportedOid"
            ELSE fnRes.ok /\ Len(fnRes.val.param_types) = Len(fnCall.oids)

\* a Parse message whose first OID is known and whose second one is not
C25_Witness ==
    /\ fnCall.op = "decode_parse"
    /\ Len(fnCall.oids) = 2
    /\ fnCall.oids[1] = U32(type_oid("Integer"))
    /\ fnCall.oids[2] = [hi |-> 1, lo |-> 16]
    /\ ~fnRes.ok

\* C26: a value decoded in format F has one encoding in F, the bytes it was
\* decoded from, so that encoding it again can give those bytes back.
C26_RoundTrip ==
    (fnCall.op = "decode" /\ fnRes.ok) =>
        \A other \in CodecRaws :
            \A again \in {decode(fnCall.pg_type, fnCall.format, other)} :
                (again.ok /\ again.val = fnRes.val) => other = fnCall.raw

\* C27: binary SmallInt and Integer need 4 bytes, or the error is NotEnoughBytes
\* with required_bytes 4, and are the big-endian i32 of the first 4 bytes, cut
\* to its low 16 bits for SmallInt; BigInt needs 8 bytes and is their i64.
C27_BinaryIntegers ==
    (fnCall.op = "decode" /\ fnCall.format = "Binary") =>
        LET raw == fnCall.raw
        IN  /\ fnCall.pg_type \in {"SmallInt", "Integer"} =>
                IF Len(raw) < 4
                THEN ~fnRes.ok /\ fnRes.err = "NotEnoughBytes" /\ fnRes.required_bytes = 4
                ELSE /\ fnRes.ok
                     /\ fnCall.pg_type = "Integer" =>
                            fnRes.val = [v |-> "Int32", n |-> I32FromBe(raw[1], raw[2], raw[3], raw[4])]
                     /\ fnCall.pg_type = "SmallInt" =>
                            fnRes.val = [v |-> "Int16", n |-> I16FromBe(raw[3], raw[4])]
            /\ fnCall.pg_type = "BigInt" =>
                IF Len(raw) < 8 THEN ~fnRes.ok /\ fnRes.err = "NotEnoughBytes"
                ELSE /\ fnRes.ok
                     /\ fnRes.val.v = "Int64"
                     /\ I32ToBe(fnRes.val.hi) \o U32ToBe(fnRes.val.lo) = SubSeq(raw, 1, 8)

\* a SmallInt whose four bytes hold more than 16 bits
C27_Witness ==
    /\ fnCall.op = "decode" /\ fnCall.format = "Binary" /\ fnCall.pg_type = "SmallInt"
    /\ fnCall.raw = <<0, 1, 0, 1>>
    /\ fnRes.ok /\ fnRes.val.n = 1

\* C28: a Bind body decodes to one entry per parameter, in order: None for the
\* length -1, else Some of exactly `length` bytes, the next ones, and an error
\* when fewer remain; a format code other than 0 and 1 is a decode error.
C28_BindParameters ==
    fnCall.op = "decode_bind" =>
        LET w == fnCall.wire
        IN  IF \/ \E i \in 1..Len(w.pf) : w.pf[i] \notin {0, 1}
               \/ \E i \in 1..Len(w.pv) : BindCut(w.pv[i])
               \/ \E i \in 1..Len(w.rf) : w.rf[i] \notin {0, 1}
            THEN ~fnRes.ok
            ELSE /\ fnRes.ok
                 /\ Len(fnRes.val.raw_params) = Len(w.pv)
                 /\ \A i \in 1..Len(w.pv) :
                        IF w.pv[i].len = -1 THEN ~fnRes.val.raw_params[i].some
                        ELSE /\ fnRes.val.raw_params[i].some
                             /\ Len(fnRes.val.raw_params[i].bytes) = w.pv[i].len
                             /\ fnRes.val.raw_params[i].bytes = w.pv[i].bytes

\* C30: after next_stage has returned an error, whatever the state it was in, the
\* decoder is in its initial state: the next call next_stage(None) returns
\* Requesting(1).
C30_ErrorResets ==
    decRes.kind = "Err" =>
        /\ decState = DecNone
        /\ \A next \in {DecNextStage(decState, decTag, NoPayload, "wrap")} :
                next.res = Requesting(AsUsize(1))


----------------------------------------------------------------------------
(* Claims about what accept does with the password and with failures       *)

\* what the Done arm did before alloc, as the fields of accept show it
AccShown == [out |-> accOut, sent |-> Len(accSent), pwd |-> accPwd]

\* C23: the password message is read and dropped: with any other tag byte (or
\* none) and any other password of the same length, the Done arm does what it
\* did with the ones the client sent
C23_PasswordIgnored ==
    accMet.pwd.asked =>
        LET in == accMet.pwd
            did == AccBeforeAlloc(in.fail_at, in.tag_read, in.len_read, in.body_read)
        IN  /\ did.out.kind # "Running" => AccShown = did
            /\ did.out.kind = "Running" => accPwd = did.pwd /\ Len(accSent) >= did.sent
            /\ \A tag_read \in AccPasswordTags :
               \A body_read \in AccPasswordBodies(in.len_read) \ {NoPayload} :
                   in.body_read.some =>
                       AccBeforeAlloc(in.fail_at, tag_read, in.len_read, body_read) = did

\* a client that sent the tag of a Query and "wxyz" was connected
C23_Witness ==
    /\ accMet.pwd.asked
    /\ accMet.pwd.tag_read = SomePayload(<<QUERY>>)
    /\ accMet.pwd.body_read = SomePayload(<<119, 120, 121, 122, 0>>)
    /\ accOut.kind = "Connect"

\* C29: a Done pass that called alloc and did not return a Connection leaves
\* the supervisor's id bookkeeping as it was before the call
C29_FailedAcceptKeepsIds ==
    ( /\ accMet.pwd.asked
      /\ accPwd
      /\ Len(accSent) >= 6
      /\ supLast.call.op = "alloc"
      /\ accOut.kind \in {"IoError", "Rejected"} )
        => /\ current_mapping = supLast.before.current_mapping
           /\ next_id = supLast.before.next_id
           /\ free_ids = supLast.before.free_ids

\* C22: a pass of accept that met a failed I/O operation ends in Err(io_error)
\* and one that met a protocol failure in Ok(Err(())), and no other pass ends
\* so; a refused client leaves the supervisor's Mutex unpoisoned; receive
\* returns the I/O error read_frontend_message met as it is, and Ok(Err(()))
\* for a message the decoder refused
C22_ErrorChannels ==
    /\ accMet.cause = "io" <=> accOut.kind = "IoError"
    /\ accMet.cause = "protocol" <=> accOut.kind = "Rejected"
    /\ accOut.kind = "Rejected" => ~poisoned
    /\ conLast.kind # "Start" =>
        /\ conLast.met.kind = "IoError" <=> conLast.kind = "IoError"
        /\ conLast.met.kind = "IoError" => conLast.res = conLast.met
        /\ conLast.met.kind = "Rejected" <=> conLast.kind = "Rejected"

----------------------------------------------------------------------------
(* Claims about what happens after an outcome, and about lengths           *)

\* C31: after a Process has returned Done, Cancel or an error, no call on it
\* returns a byte request, Done or Cancel; and a call without payload made
\* while the Process waits for bytes does not start the handshake again
C31_OutcomesAreTerminal ==
    /\ hsEnded =>
            hsRes.kind \notin {"RequestingBytes", "UpdatingToSecureWithReadingBytes",
                               "Done", "Cancel"}
    /\ (hsCalls > 0 /\ hsPrev \in {"MessageLen", "ParseSetup"} /\ ~hsIn.some) =>
            ~(hsState = "MessageLen" /\ hsRes = RequestingBytes(AsUsize(4)))

\* the ids of the free list, and the ids the supervisor knows of
SupFreeSet == {free_ids[i] : i \in DOMAIN free_ids}
SupKnown == SupFreeSet \cup DOMAIN current_mapping

\* C33: the free list has no duplicates and no live id, free list and live
\* ids together are the ids from min_id up to next_id - 1, and free(id) of an
\* id that is not live changes nothing
C33_FreeListAndLiveIds ==
    /\ \A i, j \in DOMAIN free_ids : free_ids[i] = free_ids[j] => i = j
    /\ SupFreeSet \cap DOMAIN current_mapping = {}
    /\ IF next_id < min_id THEN SupKnown = {}
       ELSE /\ \A id \in SupKnown : min_id <= id /\ id < next_id
            /\ Cardinality(SupKnown) = next_id - min_id
    /\ (supLast.call.op = "free" /\ supLast.res.kind = "Unit"
            /\ supLast.call.conn_id \notin DOMAIN supLast.before.current_mapping)
           => SupFields = supLast.before

\* C34: every id alloc returns is in min_id..max_id, and there are never more
\* live ids than max_id - min_id + 1
C34_IdsInRange ==
    /\ (supLast.call.op = "alloc" /\ supLast.res.kind = "Ok")
           => min_id <= supLast.res.conn_id /\ supLast.res.conn_id <= max_id
    /\ IF max_id < min_id THEN current_mapping = <<>>
       ELSE Cardinality(DOMAIN current_mapping) <= max_id - min_id + 1

\* C38: an alloc that fails changes no field, neither does verify; and after
\* a failed alloc, free(id) of a live id makes the next alloc return that id
C38_FailedAllocChangesNothing ==
    /\ (supLast.call.op = "alloc" /\ supLast.res.kind = "Err") =>
            /\ SupFields = supLast.before
            /\ \A conn_id \in DOMAIN current_mapping : \A secret_key \in SupKeys :
               \A next \in {alloc(free(SupFields, conn_id), secret_key, "wrap")} :
                    /\ next.res = [kind |-> "Ok", conn_id |-> conn_id,
                                   secret_key |-> secret_key]
                    /\ next.s.next_id = next_id
    /\ (supLast.call.op = "verify" /\ supLast.res.kind = "Bool") =>
            SupFields = supLast.before

\* alloc found no id left while ids were live
C38_Witness ==
    /\ supLast.call.op = "alloc"
    /\ supLast.res.kind = "Err"
    /\ current_mapping # <<>>

\* C37: the pass of accept that handles a Cancel status writes nothing,
\* calls neither alloc nor free and leaves the supervisor's fields and the
\* Connections as they were, whether the key verifies or not
C37_CancelChangesNothing ==
    (accStatus.kind = "Cancel" /\ accOut.kind \in {"QueryCancellation", "Rejected"}
        /\ supLast.call.op # "free") =>
            /\ accSent = <<>>
            /\ supLast.call.op = "verify"
            /\ supLast.call.conn_id = accStatus.conn_id
            /\ SupFields = supLast.before
            /\ supLast.res.val <=> accOut.kind = "QueryCancellation"
            /\ accOut.kind = "QueryCancellation" =>
                    /\ accOut.conn_id \in DOMAIN current_mapping
                    /\ current_mapping[accOut.conn_id] = supLast.call.secret_key

\* a cancel request for a live Connection with its key was answered with
\* QueryCancellation after the client had been through an SSL request
C37_Witness ==
    /\ accStatus.kind = "Cancel"
    /\ accOut.kind = "QueryCancellation"
    /\ supLast.call.op = "verify"
    /\ accOut.conn_id \in accSessions
    /\ accSsl > 0

\* a cancel request with a key that does not verify was refused
C37_WitnessRefused ==
    /\ accStatus.kind = "Cancel"
    /\ accOut.kind = "Rejected"
    /\ supLast.call.op = "verify"
    /\ supLast.call.conn_id \in accSessions

\* C35: in one run of accept tls_accept is called at most once and 'S' is
\* written at most once; a pass that finds the channel Secure leaves it
\* Secure and does all its reads and writes through it, and the Connection
\* accept returns holds that channel
C35_SecureOnce ==
    /\ accTls.calls <= 1
    /\ accTls.s <= 1
    /\ accTls.from = "Secure" => accChan = "Secure" /\ accTls.via = {"Secure"}
    /\ accChan = "Secure" => accTls.calls = 1 /\ accTls.s = 1

\* a client on a Secure channel sent a second SSL request and went on to be
\* connected
C35_Witness ==
    /\ accChan = "Secure"
    /\ accSsl >= 2
    /\ accTls.from = "Secure"
    /\ accOut.kind = "Connect"

\* the length prefix the handshake, the decoder and accept were given last
HsPrefix == read_i32(hsIn.bytes)
DecPrefix == read_i32(decIn.bytes)
PwdPrefix == read_u32(accMet.pwd.len_read.bytes)

\* C36: the bytes asked for after a length prefix L are never more than L:
\* the Process and the MessageDecoder request at most L bytes, and a password
\* message that announces fewer than 4 bytes does not make accept ask for a
\* wrapped-around length (which the allocation of the buffer panics on)
C36_NoHugeRequest ==
    /\ (hsCalls > 0 /\ hsPrev = "MessageLen" /\ hsIn.some /\ hsRes.kind = "RequestingBytes") =>
            ~hsRes.huge /\ hsRes.n <= HsPrefix.val
    /\ (decPrev.name = "Tag" /\ decIn.some /\ decRes.kind = "Requesting") =>
            ~decRes.huge /\ decRes.n <= DecPrefix.val
    /\ (accMet.pwd.asked /\ accMet.pwd.fail_at # 1 /\ accMet.pwd.len_read.some
            /\ PwdPrefix.val.hi = 0 /\ PwdPrefix.val.lo < 4) =>
            accOut.kind # "Panic"

\* C39: a message returned in a Done is the decoding of the tag byte fed in
\* its own cycle and of the payload fed in the call that returned it: the tag
\* kept from the message before and the length the client declared have no
\* part in it
C39_OwnTagAndPayload ==
    decRes.kind = "Done" =>
        /\ decTag = decFed[1]
        /\ \A message \in {Decode(decFed[1], decIn.bytes)} :
                message.ok /\ decRes.msg = message.val

\* the second message in a row, a Terminate whose length announced two bytes
\* of payload and whose payload was empty
C39_Witness ==
    /\ decMsgs = 2
    /\ decRes = DecDone([msg |-> "Terminate"])
    /\ decFed = <<TERMINATE, 0, 0, 0, 6>>
    /\ ~decExact

\* receive() is suspended in read_exact: nothing to read, the client still there
RcvSuspended ==
    /\ rcv.pc = "read"
    /\ rcv.got < RcvRequests[rcv.stage]
    /\ rcv.avail = 0
    /\ ~rcv.closed

\* C32: while receive() is suspended waiting for bytes of the client it does
\* not hold the channel's lock, so that no send() or flush() waits for the
\* client to transmit
C32_ReceiveWaitsUnlocked ==
    (RcvSuspended /\ \E t \in SndThreads : sndPc[t] = "lock") => sndLock # RcvThread

----------------------------------------------------------------------------
(* Claims about the ring buffer                                            *)

\* C40: in every state a RingBuffer of capacity c reaches by pushes and pops,
\* len() lies between 0 and c, is_empty() says len() = 0, is_full() says
\* len() = c and remaining() is c - len(); a push on a full buffer returns
\* its element in an Err and leaves the content as it was; the elements
\* popped are the first elements pushed, in the order they were pushed
C40_RingBuffer ==
    /\ rb.buf.head \in 0..capacity(rb.buf)
    /\ rb.buf.tail \in 0..capacity(rb.buf)
    /\ len(rb.buf) \in 0..capacity(rb.buf)
    /\ is_empty(rb.buf) <=> len(rb.buf) = 0
    /\ is_full(rb.buf) <=> len(rb.buf) = capacity(rb.buf)
    /\ ~remaining(rb.buf).huge
    /\ remaining(rb.buf).n = capacity(rb.buf) - len(rb.buf)
    /\ (rb.last.op = "push" /\ len(rb.last.before) = capacity(rb.last.before)) =>
            /\ rb.last.res = [ok |-> FALSE, err |-> rb.last.elem]
            /\ RbContent(rb.buf) = RbContent(rb.last.before)
    /\ rb.popped \o RbContent(rb.buf) = rb.pushed
    /\ (rb.last.op = "pop" /\ rb.last.res.some) =>
            rb.last.res.val = rb.pushed[Len(rb.popped)]

\* a buffer of capacity 2 whose content wraps round the end of its slots
\* refuses a third element, after a pop has returned the first one pushed
C40_Witness ==
    /\ capacity(rb.buf) = 2
    /\ rb.buf.tail < rb.buf.head
    /\ is_full(rb.buf)
    /\ rb.last.op = "push"
    /\ ~rb.last.res.ok
    /\ rb.pushed = <<12, 34, 34>>
    /\ rb.popped = <<12>>

====
